---- MODULE Spec2Model ----
(***************************************************************************)
(* A model of did-toolkit: the percent codec (src/string.rs), the DID and  *)
(* DID URL grammar (src/did.rs, src/url.rs) and the in-memory registry     *)
(* (src/registry.rs), with the validation of verification methods          *)
(* (src/document.rs).                                                      *)
(*                                                                         *)
(* Byte strings (Vec<u8>, &[u8], String, &str) are sequences of integers   *)
(* 0..255.  Option<T> is a sequence of length 0 (None) or 1 (Some(v)).     *)
(* Result<T, E> is a record with an ok flag.                               *)
(***************************************************************************)
EXTENDS Integers, Sequences, FiniteSets, TLC

VARIABLES
    cx,             \* codec harness: the byte string under test and the codec outputs
    sx,             \* syntax harness: the value or text under test and the parser outputs
    dx,             \* validation harness: the methods or references under test and the outcome
    r,              \* Registry.r: the stored documents, keyed by DID
    remote_cache,   \* Registry.remote_cache
    remote,         \* the fetch collaborator: what a GET of each Url answers
    last            \* the last registry operation, its arguments and what it returned

vars == <<cx, sx, dx, r, remote_cache, remote, last>>

(***************************************************************************)
(* Bounds of the model.                                                    *)
(***************************************************************************)
MaxCodecLen == 3
MaxIdLen == 2
MaxRestTokens == 5
MaxAka == 2
MaxMethods == 2
MaxQueryParts == 3
MaxJoinTokens == 3

(***************************************************************************)
(* Option and byte-string helpers.                                         *)
(***************************************************************************)
None == <<>>
Some(v) == <<v>>
IsSome(o) == Len(o) = 1
IsNone(o) == Len(o) = 0
Unwrap(o) == o[1]

Bytes == 0..255

Drop(s, n) == SubSeq(s, n + 1, Len(s))
Take(s, n) == SubSeq(s, 1, n)

RECURSIVE SeqsUpTo(_, _)
SeqsUpTo(S, n) ==
    IF n = 0 THEN {<<>>}
    ELSE LET shorter == SeqsUpTo(S, n - 1)
         IN shorter \cup {Append(s, e) : s \in {t \in shorter : Len(t) = n - 1}, e \in S}

(***************************************************************************)
(* Characters the code names.                                              *)
(***************************************************************************)
ChPct == 37
ChColon == 58
ChSlash == 47
ChQuest == 63
ChHash == 35
ChAmp == 38
ChEq == 61

(***************************************************************************)
(* src/string.rs                                                           *)
(***************************************************************************)
IsDigit(b) == b \in 48..57
IsUpper(b) == b \in 65..90
IsLower(b) == b \in 97..122
IsHexDigit(b) == b \in 48..57 \/ b \in 97..102 \/ b \in 65..70

\* the first arm of the match in url_encoded_internal
IsUnreserved(b) == IsDigit(b) \/ IsUpper(b) \/ IsLower(b) \/ b \in {46, 45, 95}

\* one digit of format!("{:02X}")
UpperHexDigit(n) == IF n < 10 THEN 48 + n ELSE 55 + n

\* format!("%{:02X}", idx).bytes()
PctEscape(b) == <<ChPct, UpperHexDigit(b \div 16), UpperHexDigit(b % 16)>>

RECURSIVE url_encoded_internal(_, _)
url_encoded_internal(input, escape_colon) ==
    IF input = <<>> THEN <<>>
    ELSE LET idx == Head(input)
             out == IF IsUnreserved(idx) THEN <<idx>>
                    ELSE IF idx = ChColon
                         THEN (IF escape_colon THEN PctEscape(idx) ELSE <<idx>>)
                         ELSE PctEscape(idx)
         IN out \o url_encoded_internal(Tail(input), escape_colon)

url_encoded(input) == url_encoded_internal(input, TRUE)

method_id_encoded(input) == url_encoded_internal(input, FALSE)

\* char::to_digit(16) on a hex digit
ToDigit16(b) ==
    IF b \in 48..57 THEN b - 48
    ELSE IF b \in 97..102 THEN b - 87
    ELSE b - 55

\* u8 | u8
RECURSIVE BitOr(_, _)
BitOr(a, b) ==
    IF a = 0 THEN b
    ELSE IF b = 0 THEN a
    ELSE (IF a % 2 = 1 \/ b % 2 = 1 THEN 1 ELSE 0) + 2 * BitOr(a \div 2, b \div 2)

\* DecodeStep without the reset of hexval after a byte is pushed
DecodeStep_StaleHexval(st, idx) ==
    IF idx = ChPct THEN [st EXCEPT !.in_pct = TRUE]
    ELSE IF IsHexDigit(idx) THEN
        IF st.in_pct THEN
            LET val == ToDigit16(idx)
                hexval == BitOr(st.hexval, IF st.hexleft THEN (val * 16) % 256 ELSE val)
            IN IF st.hexleft
               THEN [st EXCEPT !.hexval = hexval, !.hexleft = FALSE]
               ELSE [st EXCEPT !.hexleft = TRUE, !.in_pct = FALSE,
                               !.ret = Append(st.ret, hexval)]
        ELSE [st EXCEPT !.ret = Append(st.ret, idx)]
    ELSE [st EXCEPT !.ret = Append(st.ret, idx)]

\* one iteration of the loop of url_decoded over the scanner state
DecodeStep(st, idx) ==
    IF idx = ChPct THEN [st EXCEPT !.in_pct = TRUE]
    ELSE IF IsHexDigit(idx) THEN
        IF st.in_pct THEN
            LET val == ToDigit16(idx)
                hexval == BitOr(st.hexval, IF st.hexleft THEN (val * 16) % 256 ELSE val)
            IN IF st.hexleft
               THEN [st EXCEPT !.hexval = hexval, !.hexleft = FALSE]
               ELSE [hexval |-> 0, hexleft |-> TRUE, in_pct |-> FALSE,
                     ret |-> Append(st.ret, hexval)]
        ELSE [st EXCEPT !.ret = Append(st.ret, idx)]
    ELSE [st EXCEPT !.ret = Append(st.ret, idx)]

\* the loop of url_decoded: the bytes of s taken in order, the first half of s and
\* then the second
RECURSIVE DecodeLoop(_, _)
DecodeLoop(st, s) ==
    IF Len(s) = 0 THEN st
    ELSE IF Len(s) = 1 THEN DecodeStep(st, s[1])
    ELSE LET half == Len(s) \div 2
             mid == DecodeLoop(st, SubSeq(s, 1, half))
         IN DecodeLoop(mid, SubSeq(s, half + 1, Len(s)))

url_decoded(s) ==
    DecodeLoop([hexval |-> 0, hexleft |-> TRUE, in_pct |-> FALSE, ret |-> <<>>], s).ret

\* validate_method_name without the digits
RECURSIVE validate_method_name_LettersOnly(_)
validate_method_name_LettersOnly(s) ==
    IF s = <<>> THEN TRUE
    ELSE IF ~(Head(s) \in 97..122) THEN FALSE
    ELSE validate_method_name_LettersOnly(Tail(s))

\* validate_method_name(s).is_ok()
RECURSIVE validate_method_name(_)
validate_method_name(s) ==
    IF s = <<>> THEN TRUE
    ELSE IF ~(Head(s) \in 97..122) /\ ~IsDigit(Head(s)) THEN FALSE
    ELSE validate_method_name(Tail(s))


(***************************************************************************)
(* Result<T, anyhow::Error>, and the str helpers of the standard library.  *)
(***************************************************************************)
\* an anyhow::Error: its message and, where the message is formatted with a DID or a
\* DID URL, that value
NoError == [msg |-> "", did |-> <<>>]
ErrOf(e) == [ok |-> FALSE, val |-> <<>>, err |-> e]
Ok(v) == [ok |-> TRUE, val |-> <<v>>, err |-> NoError]
Err(msg) == ErrOf([msg |-> msg, did |-> <<>>])
ErrDid(msg, did) == ErrOf([msg |-> msg, did |-> <<did>>])
ErrUrl(msg, url) == ErrOf([msg |-> msg, did |-> <<url>>])

\* "did:"
DidPrefix == <<100, 105, 100, 58>>

Contains(s, c) == \E i \in 1..Len(s) : s[i] = c

\* the index of the first c in s, 0 when there is none
IndexOf(s, c) ==
    IF Contains(s, c)
    THEN CHOOSE i \in 1..Len(s) : s[i] = c /\ \A j \in 1..(i - 1) : s[j] # c
    ELSE 0

\* str::strip_prefix
strip_prefix(s, p) ==
    IF Len(s) >= Len(p) /\ Take(s, Len(p)) = p THEN Some(Drop(s, Len(p))) ELSE None

\* str::strip_suffix with a one-character pattern
strip_suffix(s, c) ==
    IF Len(s) >= 1 /\ s[Len(s)] = c THEN Some(Take(s, Len(s) - 1)) ELSE None

\* str::split_once: the text before and the text after the first c
split_once(s, c) ==
    LET i == IndexOf(s, c)
    IN IF i = 0 THEN None ELSE Some([l |-> Take(s, i - 1), r |-> Drop(s, i)])

\* str::split: the parts between every c
RECURSIVE split(_, _)
split(s, c) ==
    LET i == IndexOf(s, c)
    IN IF i = 0 THEN <<s>> ELSE <<Take(s, i - 1)>> \o split(Drop(s, i), c)

\* Ord for Vec<u8>: lexicographic
RECURSIVE BytesLess(_, _)
BytesLess(a, b) ==
    IF b = <<>> THEN FALSE
    ELSE IF a = <<>> THEN TRUE
    ELSE IF Head(a) # Head(b) THEN Head(a) < Head(b)
    ELSE BytesLess(Tail(a), Tail(b))

(***************************************************************************)
(* src/did.rs                                                              *)
(***************************************************************************)
DID(name, id) == [name |-> name, id |-> id]

\* impl Display for DID
DID_to_string(did) ==
    DidPrefix \o url_encoded(did.name) \o <<ChColon>> \o method_id_encoded(did.id)

\* DID::parse with the name ended at the last ':' of the text
DID_parse_LastColon(s) ==
    LET sp == strip_prefix(s, DidPrefix)
        colons == IF IsNone(sp) THEN {} ELSE {i \in 1..Len(Unwrap(sp)) : Unwrap(sp)[i] = ChColon}
    IN IF IsNone(sp) THEN Err("DID is missing method_name, method_id")
       ELSE IF colons = {} THEN Err("DID is missing method_id")
       ELSE LET i == CHOOSE i \in colons : \A j \in colons : j <= i
                method_name == Take(Unwrap(sp), i - 1)
                method_id == Drop(Unwrap(sp), i)
            IN IF method_id = <<>> THEN Err("Method ID cannot be empty")
               ELSE IF method_name = <<>> THEN Err("Method name cannot be empty")
               ELSE IF ~validate_method_name(method_name)
                    THEN Err("Method name has invalid characters (not in 0x61 - 0x7a)")
               ELSE Ok(DID(method_name, method_id))

\* DID::parse
DID_parse(s) ==
    LET sp == strip_prefix(s, DidPrefix)
    IN IF IsNone(sp) THEN Err("DID is missing method_name, method_id")
       ELSE LET so == split_once(Unwrap(sp), ChColon)
            IN IF IsNone(so) THEN Err("DID is missing method_id")
               ELSE LET method_name == Unwrap(so).l
                        method_id == Unwrap(so).r
                    IN IF method_id = <<>> THEN Err("Method ID cannot be empty")
                       ELSE IF method_name = <<>> THEN Err("Method name cannot be empty")
                       ELSE IF ~validate_method_name(method_name)
                            THEN Err("Method name has invalid characters (not in 0x61 - 0x7a)")
                       ELSE Ok(DID(method_name, method_id))

(***************************************************************************)
(* src/time.rs: VersionTime, a UTC date and time to the second.            *)
(***************************************************************************)
VersionTime(y, mo, d, h, mi, s) ==
    [year |-> y, month |-> mo, day |-> d, hour |-> h, minute |-> mi, second |-> s]

Dec2(n) == <<48 + ((n \div 10) % 10), 48 + (n % 10)>>

RECURSIVE Dec(_)
Dec(n) == IF n < 10 THEN <<48 + n>> ELSE Dec(n \div 10) \o <<48 + (n % 10)>>

\* impl Display for VersionTime: "{}-{:02}-{:02}T{:02}:{:02}:{:02}Z"
VersionTime_to_string(t) ==
    Dec(t.year) \o <<45>> \o Dec2(t.month) \o <<45>> \o Dec2(t.day) \o <<84>>
        \o Dec2(t.hour) \o <<58>> \o Dec2(t.minute) \o <<58>> \o Dec2(t.second) \o <<90>>

Num2(s, i) == (s[i] - 48) * 10 + (s[i + 1] - 48)

IsLeap(y) == (y % 4 = 0 /\ y % 100 # 0) \/ y % 400 = 0

DaysInMonth(y, m) ==
    IF m = 2 THEN (IF IsLeap(y) THEN 29 ELSE 28)
    ELSE IF m \in {4, 6, 9, 11} THEN 30 ELSE 31

\* VersionTime::parse: "[year]-[month]-[day]T[hour]:[minute]:[second]Z"
VersionTime_parse(s) ==
    IF Len(s) # 20 THEN Err("invalid version time")
    ELSE IF ~(\A i \in {1, 2, 3, 4, 6, 7, 9, 10, 12, 13, 15, 16, 18, 19} : IsDigit(s[i]))
         THEN Err("invalid version time")
    ELSE IF ~(s[5] = 45 /\ s[8] = 45 /\ s[11] = 84 /\ s[14] = 58 /\ s[17] = 58 /\ s[20] = 90)
         THEN Err("invalid version time")
    ELSE LET y == Num2(s, 1) * 100 + Num2(s, 3)
             mo == Num2(s, 6)
             d == Num2(s, 9)
             h == Num2(s, 12)
             mi == Num2(s, 15)
             sec == Num2(s, 18)
         IN IF mo \in 1..12 /\ d \in 1..DaysInMonth(y, mo) /\ h <= 23 /\ mi <= 59 /\ sec <= 59
            THEN Ok(VersionTime(y, mo, d, h, mi, sec))
            ELSE Err("invalid version time")


(***************************************************************************)
(* src/url.rs                                                              *)
(*                                                                         *)
(* BTreeMap<Vec<u8>, Vec<u8>> is a sequence of [k, v] records with         *)
(* strictly increasing keys.  The texts given to the parser are ASCII, on  *)
(* which String::from_utf8_lossy and String::from_utf8 change nothing.     *)
(***************************************************************************)
URLParameters(path, fragment, service, relative_ref, version_id, version_time, hash_link, extra_query) ==
    [path |-> path, fragment |-> fragment, service |-> service,
     relative_ref |-> relative_ref, version_id |-> version_id,
     version_time |-> version_time, hash_link |-> hash_link, extra_query |-> extra_query]

\* URLParameters::default()
DefaultParameters == URLParameters(None, None, None, None, None, None, None, None)

URL(did, parameters) == [did |-> did, parameters |-> parameters]

\* BTreeMap::insert that leaves the value of a key already present as it is
RECURSIVE BTreeMap_insert_KeepFirst(_, _, _)
BTreeMap_insert_KeepFirst(m, k, v) ==
    IF m = <<>> THEN <<[k |-> k, v |-> v]>>
    ELSE IF Head(m).k = k THEN m
    ELSE IF BytesLess(k, Head(m).k) THEN <<[k |-> k, v |-> v]>> \o m
    ELSE <<Head(m)>> \o BTreeMap_insert_KeepFirst(Tail(m), k, v)

\* BTreeMap::insert: the value of a key already present is replaced
RECURSIVE BTreeMap_insert(_, _, _)
BTreeMap_insert(m, k, v) ==
    IF m = <<>> THEN <<[k |-> k, v |-> v]>>
    ELSE IF Head(m).k = k THEN <<[k |-> k, v |-> v]>> \o Tail(m)
    ELSE IF BytesLess(k, Head(m).k) THEN <<[k |-> k, v |-> v]>> \o m
    ELSE <<Head(m)>> \o BTreeMap_insert(Tail(m), k, v)

KeyService == <<115, 101, 114, 118, 105, 99, 101>>   \* "service"
KeyRelativeRef == <<114, 101, 108, 97, 116, 105, 118, 101, 82, 101, 102>>   \* "relativeRef"
KeyVersionId == <<118, 101, 114, 115, 105, 111, 110, 73, 100>>   \* "versionId"
KeyVersionTime == <<118, 101, 114, 115, 105, 111, 110, 84, 105, 109, 101>>   \* "versionTime"
KeyHl == <<104, 108>>   \* "hl"

\* the loop over extra_query.iter() in Display for URL
RECURSIVE ExtraQueryText(_)
ExtraQueryText(m) ==
    IF m = <<>> THEN <<>>
    ELSE url_encoded(Head(m).k) \o <<ChEq>> \o url_encoded(Head(m).v) \o <<ChAmp>>
            \o ExtraQueryText(Tail(m))

\* the query part written by Display for URL, from "?" on
QueryText(params) ==
    LET ret == <<ChQuest>>
            \o (IF IsSome(params.service)
                THEN KeyService \o <<ChEq>> \o Unwrap(params.service) \o <<ChAmp>> ELSE <<>>)
            \o (IF IsSome(params.relative_ref)
                THEN KeyRelativeRef \o <<ChEq>> \o url_encoded(Unwrap(params.relative_ref))
                        \o <<ChAmp>>
                ELSE <<>>)
            \o (IF IsSome(params.version_id)
                THEN KeyVersionId \o <<ChEq>> \o Unwrap(params.version_id) \o <<ChAmp>>
                ELSE <<>>)
            \o (IF IsSome(params.version_time)
                THEN KeyVersionTime \o <<ChEq>>
                        \o VersionTime_to_string(Unwrap(params.version_time)) \o <<ChAmp>>
                ELSE <<>>)
            \o (IF IsSome(params.hash_link)
                THEN KeyHl \o <<ChEq>> \o Unwrap(params.hash_link) \o <<ChAmp>> ELSE <<>>)
            \o (IF IsSome(params.extra_query)
                THEN ExtraQueryText(Unwrap(params.extra_query)) ELSE <<>>)
    IN ret

\* impl Display for URL
URL_to_string(url) ==
    LET head == DidPrefix \o url_encoded(url.did.name) \o <<ChColon>>
                    \o method_id_encoded(url.did.id)
    IN IF IsNone(url.parameters) THEN head
       ELSE LET params == Unwrap(url.parameters)
                withPath == IF IsSome(params.path)
                            THEN head \o <<ChSlash>> \o url_encoded(Unwrap(params.path))
                            ELSE head
                withQuery ==
                    IF IsSome(params.service) \/ IsSome(params.relative_ref)
                        \/ IsSome(params.version_id) \/ IsSome(params.version_time)
                        \/ IsSome(params.hash_link) \/ IsSome(params.extra_query)
                    THEN LET ret == withPath \o QueryText(params)
                             stripped == strip_suffix(ret, ChAmp)
                         IN IF IsSome(stripped) THEN Unwrap(stripped) ELSE ret
                    ELSE withPath
            IN IF IsSome(params.fragment)
               THEN withQuery \o <<ChHash>> \o url_encoded(Unwrap(params.fragment))
               ELSE withQuery

\* fn before: the first character of s that is left or right decides, left being
\* tested first; FALSE when s holds neither
before(s, left, right) ==
    LET hits == {i \in 1..Len(s) : s[i] = left \/ s[i] = right}
    IN /\ hits # {}
       /\ s[CHOOSE i \in hits : \A j \in hits : i <= j] = left

\* URL::to_did
to_did(url) == DID(url.did.name, url.did.id)

\* URL::match_fixed_query_params with relativeRef kept as it is written
match_fixed_query_params_RawRelativeRef(url, left, right, extra_query) ==
    LET params == IF IsNone(url.parameters) THEN DefaultParameters
                  ELSE Unwrap(url.parameters)
        done(p, eq) == [ok |-> TRUE, url |-> [url EXCEPT !.parameters = Some(p)],
                        extra_query |-> eq, err |-> NoError]
    IN IF left = KeyService THEN done([params EXCEPT !.service = Some(right)], extra_query)
       ELSE IF left = KeyRelativeRef
            THEN done([params EXCEPT !.relative_ref = Some(right)], extra_query)
       ELSE IF left = KeyVersionId
            THEN done([params EXCEPT !.version_id = Some(right)], extra_query)
       ELSE IF left = KeyVersionTime
            THEN LET t == VersionTime_parse(right)
                 IN IF t.ok
                    THEN done([params EXCEPT !.version_time = Some(Unwrap(t.val))], extra_query)
                    ELSE [ok |-> FALSE, url |-> url, extra_query |-> extra_query,
                          err |-> t.err]
       ELSE IF left = KeyHl THEN done([params EXCEPT !.hash_link = Some(right)], extra_query)
       ELSE done(params, BTreeMap_insert(extra_query, url_decoded(left), url_decoded(right)))

\* URL::match_fixed_query_params: the url and the extra_query map after one key=value
match_fixed_query_params(url, left, right, extra_query) ==
    LET params == IF IsNone(url.parameters) THEN DefaultParameters
                  ELSE Unwrap(url.parameters)
        done(p, eq) == [ok |-> TRUE, url |-> [url EXCEPT !.parameters = Some(p)],
                        extra_query |-> eq, err |-> NoError]
    IN IF left = KeyService THEN done([params EXCEPT !.service = Some(right)], extra_query)
       ELSE IF left = KeyRelativeRef
            THEN done([params EXCEPT !.relative_ref = Some(url_decoded(right))], extra_query)
       ELSE IF left = KeyVersionId
            THEN done([params EXCEPT !.version_id = Some(right)], extra_query)
       ELSE IF left = KeyVersionTime
            THEN LET t == VersionTime_parse(right)
                 IN IF t.ok
                    THEN done([params EXCEPT !.version_time = Some(Unwrap(t.val))], extra_query)
                    ELSE [ok |-> FALSE, url |-> url, extra_query |-> extra_query,
                          err |-> t.err]
       ELSE IF left = KeyHl THEN done([params EXCEPT !.hash_link = Some(right)], extra_query)
       ELSE done(params, BTreeMap_insert(extra_query, url_decoded(left), url_decoded(right)))

\* one part of the query in URL::parse_query
QueryPart(url, part, extra_query) ==
    LET so == split_once(part, ChEq)
    IN IF IsSome(so)
       THEN match_fixed_query_params(url, Unwrap(so).l, Unwrap(so).r, extra_query)
       ELSE [ok |-> TRUE, url |-> url,
             extra_query |-> BTreeMap_insert(extra_query, url_decoded(part), <<>>),
             err |-> NoError]

\* the loop over item.split('&') in URL::parse_query
RECURSIVE QueryParts(_, _, _)
QueryParts(url, parts, extra_query) ==
    IF parts = <<>>
    THEN [ok |-> TRUE, url |-> url, extra_query |-> extra_query, err |-> NoError]
    ELSE LET one == QueryPart(url, Head(parts), extra_query)
         IN IF one.ok THEN QueryParts(one.url, Tail(parts), one.extra_query) ELSE one

\* the end of URL::parse_query: a map that is not empty becomes the extra_query of the url
StoreExtraQuery(got) ==
    IF ~got.ok THEN ErrOf(got.err)
    ELSE IF got.extra_query # <<>>
         THEN Ok([got.url EXCEPT
                     !.parameters =
                         Some([(IF IsNone(got.url.parameters) THEN DefaultParameters
                                ELSE Unwrap(got.url.parameters))
                                  EXCEPT !.extra_query = Some(got.extra_query)])])
    ELSE Ok(got.url)

\* URL::parse_query: the url with the query's fields set, or the error
parse_query(url, query) ==
    StoreExtraQuery(IF ~Contains(query, ChAmp) THEN QueryPart(url, query, <<>>)
                    ELSE QueryParts(url, split(query, ChAmp), <<>>))

InvalidName == "Method name has invalid characters (not in 0x61 - 0x7a)"

\* Option::map(url_decoded)
MapDecoded(o) == IF IsSome(o) THEN Some(url_decoded(Unwrap(o))) ELSE None

\* URL::match_fragment with the name validated after it is decoded
match_fragment_DecodedName(method_name, method_id, path, query, fragment) ==
    IF ~validate_method_name(url_decoded(method_name)) THEN Err(InvalidName)
    ELSE LET url == URL(DID(url_decoded(method_name), url_decoded(method_id)),
                        Some([DefaultParameters EXCEPT
                                 !.fragment = Some(url_decoded(fragment)),
                                 !.path = MapDecoded(path)]))
         IN IF IsSome(query) THEN parse_query(url, Unwrap(query)) ELSE Ok(url)

match_fragment(method_name, method_id, path, query, fragment) ==
    IF ~validate_method_name(method_name) THEN Err(InvalidName)
    ELSE LET url == URL(DID(url_decoded(method_name), url_decoded(method_id)),
                        Some([DefaultParameters EXCEPT
                                 !.fragment = Some(url_decoded(fragment)),
                                 !.path = MapDecoded(path)]))
         IN IF IsSome(query) THEN parse_query(url, Unwrap(query)) ELSE Ok(url)

\* URL::match_query without the split at '#': the fragment stays in the query
match_query_NoFragment(method_name, method_id, path, query) ==
    IF ~validate_method_name(method_name) THEN Err(InvalidName)
    ELSE parse_query(URL(DID(url_decoded(method_name), url_decoded(method_id)),
                         Some([DefaultParameters EXCEPT !.path = MapDecoded(path)])),
                     query)

match_query(method_name, method_id, path, query) ==
    LET so == split_once(query, ChHash)
    IN IF IsSome(so)
       THEN match_fragment(method_name, method_id, path, Some(Unwrap(so).l), Unwrap(so).r)
       ELSE IF ~validate_method_name(method_name) THEN Err(InvalidName)
       ELSE parse_query(URL(DID(url_decoded(method_name), url_decoded(method_id)),
                            Some([DefaultParameters EXCEPT !.path = MapDecoded(path)])),
                        query)

\* the two arms of URL::match_path that find neither '?' nor '#': a path alone
PathOnly(method_name, method_id, left) ==
    IF ~validate_method_name(method_name) THEN Err(InvalidName)
    ELSE Ok(URL(DID(url_decoded(method_name), url_decoded(method_id)),
                Some([DefaultParameters EXCEPT !.path = Some(url_decoded(left))])))

\* URL::match_path without the test for a '#' before the '?'
match_path_QueryFirst(method_name, method_id, left) ==
    LET sq == split_once(left, ChQuest)
    IN IF IsSome(sq)
       THEN match_query(method_name, method_id, Some(Unwrap(sq).l), Unwrap(sq).r)
       ELSE LET sh == split_once(left, ChHash)
            IN IF IsSome(sh)
               THEN match_fragment(method_name, method_id, Some(Unwrap(sh).l), None,
                                   Unwrap(sh).r)
               ELSE PathOnly(method_name, method_id, left)

match_path(method_name, method_id, left) ==
    IF ~before(left, ChHash, ChQuest)
    THEN LET sq == split_once(left, ChQuest)
         IN IF IsSome(sq)
            THEN match_query(method_name, method_id, Some(Unwrap(sq).l), Unwrap(sq).r)
            ELSE LET sh == split_once(left, ChHash)
                 IN IF IsSome(sh)
                    THEN match_fragment(method_name, method_id, Some(Unwrap(sh).l), None,
                                        Unwrap(sh).r)
                    ELSE PathOnly(method_name, method_id, left)
    ELSE LET sh == split_once(left, ChHash)
         IN IF IsSome(sh)
            THEN match_fragment(method_name, method_id, Some(Unwrap(sh).l), None,
                                Unwrap(sh).r)
            ELSE PathOnly(method_name, method_id, left)

split_fragment(method_name, right) ==
    LET sh == split_once(right, ChHash)
    IN IF IsSome(sh)
       THEN match_fragment(method_name, Unwrap(sh).l, None, None, Unwrap(sh).r)
       ELSE IF ~validate_method_name(method_name) THEN Err(InvalidName)
       ELSE Ok(URL(DID(url_decoded(method_name), url_decoded(right)), None))

split_query(method_name, right) ==
    LET sq == split_once(right, ChQuest)
    IN IF IsSome(sq)
       THEN match_query(method_name, Unwrap(sq).l, None, Unwrap(sq).r)
       ELSE split_fragment(method_name, right)

URL_parse(s) ==
    LET sp == strip_prefix(s, DidPrefix)
    IN IF IsNone(sp) THEN Err("DID did not start with did: scheme")
       ELSE LET so == split_once(Unwrap(sp), ChColon)
            IN IF IsNone(so) THEN Err("DID did not contain method specific ID")
               ELSE LET method_name == Unwrap(so).l
                        right == Unwrap(so).r
                    IN IF ~before(right, ChQuest, ChSlash) /\ ~before(right, ChHash, ChSlash)
                       THEN LET sl == split_once(right, ChSlash)
                            IN IF IsSome(sl)
                               THEN match_path(method_name, Unwrap(sl).l, Unwrap(sl).r)
                               ELSE split_query(method_name, right)
                       ELSE IF before(right, ChQuest, ChHash)
                            THEN split_query(method_name, right)
                       ELSE split_fragment(method_name, right)

\* URL::join
URL_join(self, s) ==
    IF s = <<>> THEN Err("relative DID URL is empty")
    ELSE IF Head(s) = ChSlash THEN match_path(self.did.name, self.did.id, Tail(s))
    ELSE IF Head(s) = ChQuest THEN match_query(self.did.name, self.did.id, None, Tail(s))
    ELSE IF Head(s) = ChHash
         THEN match_fragment(self.did.name, self.did.id, None, None, Tail(s))
    ELSE Err("DID URL is not relative or is malformed")


(***************************************************************************)
(* The inputs the pure functions are applied to.                           *)
(***************************************************************************)
\* NUL, space, '%', '/', '2', ':', 'F', 'a', 0x80, 0xFF
SampleBytes == {0, 32, 37, 47, 50, 58, 70, 97, 128, 255}

\* every single byte, and every string of sample bytes up to the bound
CodecInputs == SeqsUpTo(SampleBytes, MaxCodecLen) \cup {<<b>> : b \in Bytes}

\* method names: [a-z0-9]+
SampleNames == {<<97>>, <<97, 49>>}

\* method-specific ids: non-empty, of bytes inside and outside the unreserved set
SampleIds == SeqsUpTo({32, 37, 47, 49, 58, 128}, MaxIdLen) \ {<<>>}

Identifiers == {DID(n, i) : n \in SampleNames, i \in SampleIds}

\* 1978-04-06T06:00:00Z
SampleTime == VersionTime(1978, 4, 6, 6, 0, 0)

Opt(S) == {None} \cup {Some(v) : v \in S}

SampleExtraQueries ==
    {<<>>, <<[k |-> <<107>>, v |-> <<118>>]>>, <<[k |-> <<107>>, v |-> <<>>]>>,
     <<[k |-> <<107>>, v |-> <<118>>], [k |-> <<120>>, v |-> <<47>>]>>}

\* every combination of set and unset fields
PlainParameters ==
    {URLParameters(pa, fr, se, rr, vi, vt, hl, eq) :
        pa \in Opt({<<>>, <<112>>}), fr \in Opt({<<102>>}), se \in Opt({<<115>>}),
        rr \in Opt({<<47, 114>>}), vi \in Opt({<<49>>}), vt \in Opt({SampleTime}),
        hl \in Opt({<<104>>}), eq \in Opt(SampleExtraQueries)}

\* a service that holds a '#': "a#b"
RawParameters ==
    {URLParameters(pa, fr, Some(<<97, 35, 98>>), None, None, None, hl, None) :
        pa \in Opt({<<112>>}), fr \in Opt({<<102>>}), hl \in Opt({<<104>>})}

SampleParameters == PlainParameters \cup RawParameters

Locators ==
    {URL(DID(<<97, 49>>, i), pr) : i \in {<<49>>, <<49, 58, 117>>, <<47>>}, pr \in Opt(SampleParameters)}

\* the start of a text: "did:a1:", and "did:A:", whose name is not a method name
TextHeads == {<<100, 105, 100, 58, 97, 49, 58>>, <<100, 105, 100, 58, 65, 58>>}

\* the pieces the rest of a text is made of: "1", "/", "?", "#", "%2F", "k=v"
RestTokens == {<<49>>, <<47>>, <<63>>, <<35>>, <<37, 50, 70>>, <<107, 61, 118>>}

RECURSIVE Flatten(_)
Flatten(ss) == IF ss = <<>> THEN <<>> ELSE Head(ss) \o Flatten(Tail(ss))

\* the starts of the texts given to DID::parse: "", "did", "did:", "did::", "did:a1",
\* "did:a1:", "did:A:", "did:a b:", "x:"
DidHeads ==
    {<<>>, <<100, 105, 100>>, <<100, 105, 100, 58>>, <<100, 105, 100, 58, 58>>,
     <<100, 105, 100, 58, 97, 49>>, <<100, 105, 100, 58, 97, 49, 58>>,
     <<100, 105, 100, 58, 65, 58>>, <<100, 105, 100, 58, 97, 32, 98, 58>>, <<120, 58>>}

\* and their ends: "", "1", ":", "1:u:a", "%31", "%"
DidTails == {<<>>, <<49>>, <<58>>, <<49, 58, 117, 58, 97>>, <<37, 51, 49>>, <<37>>}

DidTexts == {h \o t : h \in DidHeads, t \in DidTails}

\* the parts of a query with keys that are not reserved: "k=v", "k=w", "b=1", "k"
SampleQueryParts == {<<107, 61, 118>>, <<107, 61, 119>>, <<98, 61, 49>>, <<107>>}

\* the queries of one to n of the parts, with a '&' between two of them
RECURSIVE Queries(_, _)
Queries(parts, n) ==
    IF n = 1 THEN parts
    ELSE LET shorter == Queries(parts, n - 1)
         IN shorter \cup {q \o <<ChAmp>> \o p : q \in shorter, p \in parts}

\* the parts with a '&' between two of them
RECURSIVE JoinParts(_)
JoinParts(ps) ==
    IF Len(ps) = 1 THEN Head(ps) ELSE Head(ps) \o <<ChAmp>> \o JoinParts(Tail(ps))

\* "did:a1:1?" and a query
QueryTexts ==
    {<<100, 105, 100, 58, 97, 49, 58, 49, 63>> \o q :
        q \in Queries(SampleQueryParts, MaxQueryParts)}

\* the parts of a query with the reserved keys and with keys that look like them:
\* "service=s", "service=a=b", "hl", "hl=h", "relativeRef=%2Fr", "versionId=1",
\* "versionTime=1978-04-06T06:00:00Z", "versionTime=x", "%68l=%76", "k=v", "k"
FieldParts ==
    {KeyService \o <<61, 115>>, KeyService \o <<61, 97, 61, 98>>, KeyHl, KeyHl \o <<61, 104>>,
     KeyRelativeRef \o <<61, 37, 50, 70, 114>>, KeyVersionId \o <<61, 49>>,
     KeyVersionTime \o <<61>> \o VersionTime_to_string(SampleTime),
     KeyVersionTime \o <<61, 120>>, <<37, 54, 56, 108, 61, 37, 55, 54>>,
     <<107, 61, 118>>, <<107>>}

\* "did:a1:1?" and a query of these parts
FieldTexts ==
    {<<100, 105, 100, 58, 97, 49, 58, 49, 63>> \o q :
        q \in Queries(FieldParts, MaxQueryParts)}

\* texts whose NAME is written with escapes: the names "%61", "%61%31", "a%41", "%41",
\* "a1", "A" and "", each before "1", "1#f", "1/p", "1/p?k=v" and "1?k=v#f"
NameTexts ==
    {DidPrefix \o n \o <<ChColon>> \o t :
        n \in {<<37, 54, 49>>, <<37, 54, 49, 37, 51, 49>>, <<97, 37, 52, 49>>, <<37, 52, 49>>,
               <<97, 49>>, <<65>>, <<>>},
        t \in {<<49>>, <<49, 35, 102>>, <<49, 47, 112>>, <<49, 47, 112, 63, 107, 61, 118>>,
               <<49, 63, 107, 61, 118, 35, 102>>}}

\* a head and at most n of the pieces after it
RECURSIVE RestTexts(_)
RestTexts(n) ==
    IF n = 0 THEN TextHeads
    ELSE LET shorter == RestTexts(n - 1)
         IN shorter \cup {t \o e : t \in shorter, e \in RestTokens}

Texts == RestTexts(MaxRestTokens) \cup QueryTexts \cup FieldTexts \cup NameTexts

\* the arguments of validate_method_name: "erik", "abc123", "Erik", "not valid", "z9"
NameInputs ==
    {<<101, 114, 105, 107>>, <<97, 98, 99, 49, 50, 51>>, <<69, 114, 105, 107>>,
     <<110, 111, 116, 32, 118, 97, 108, 105, 100>>, <<122, 57>>}

\* the Locators URL::join is called on: did:a1:1, did:A:1 and Identifiers whose id
\* holds ':', '/', "%41" or a '%' alone, without parameters and with a path
JoinBases ==
    {URL(DID(n, i), pr) :
        n \in {<<97, 49>>, <<65>>},
        i \in {<<49>>, <<49, 58, 117>>, <<47>>, <<37, 52, 49>>, <<37>>},
        pr \in {None, Some([DefaultParameters EXCEPT !.path = Some(<<112>>)])}}

\* the pieces of its argument: "/", "?", "#", "p", "k=v", "%2F"
JoinTokens == {<<47>>, <<63>>, <<35>>, <<112>>, <<107, 61, 118>>, <<37, 50, 70>>}

JoinTexts == {Flatten(ts) : ts \in SeqsUpTo(JoinTokens, MaxJoinTokens)}

(***************************************************************************)
(* The codec harness: a byte string is encoded, then decoded.              *)
(***************************************************************************)
CodecIdle ==
    [b |-> <<>>, step |-> "off", variant |-> "", enc |-> <<>>, dec |-> <<>>, name_ok |-> FALSE]

CodecInit ==
    cx \in {[b |-> b, step |-> "input", variant |-> "", enc |-> <<>>, dec |-> <<>>,
              name_ok |-> FALSE] : b \in CodecInputs \cup NameInputs}

\* url_encoded(&b)
Encode ==
    /\ cx.step = "input"
    /\ cx' = [cx EXCEPT !.step = "encoded", !.variant = "url", !.enc = url_encoded(cx.b)]
    /\ UNCHANGED <<sx, dx, r, remote_cache, remote, last>>

\* method_id_encoded(&b)
EncodeMethodId ==
    /\ cx.step = "input"
    /\ cx' = [cx EXCEPT !.step = "encoded", !.variant = "method_id",
                        !.enc = method_id_encoded(cx.b)]
    /\ UNCHANGED <<sx, dx, r, remote_cache, remote, last>>

\* url_decoded(encoded.as_bytes())
Decode ==
    /\ cx.step = "encoded"
    /\ cx' = [cx EXCEPT !.step = "decoded", !.dec = url_decoded(cx.enc)]
    /\ UNCHANGED <<sx, dx, r, remote_cache, remote, last>>

\* url_decoded(&b) on a text that no encoder wrote
DecodeRaw ==
    /\ cx.step = "input"
    /\ cx' = [cx EXCEPT !.step = "raw_decoded", !.dec = url_decoded(cx.b)]
    /\ UNCHANGED <<sx, dx, r, remote_cache, remote, last>>

\* validate_method_name(&b).is_ok()
ValidateMethodName ==
    /\ cx.step = "input"
    /\ cx' = [cx EXCEPT !.step = "validated", !.name_ok = validate_method_name(cx.b)]
    /\ UNCHANGED <<sx, dx, r, remote_cache, remote, last>>

(***************************************************************************)
(* The syntax harness: an Identifier or a Locator is formatted and the     *)
(* text parsed, or a text is parsed as it stands.                          *)
(***************************************************************************)
NoUrl == URL(DID(<<>>, <<>>), None)

SyntaxIdle ==
    [kind |-> "off", x |-> NoUrl, text |-> <<>>, step |-> "off",
     did_res |-> None, url_res |-> None]

SyntaxInit ==
    \/ \E d \in Identifiers :
          sx = [SyntaxIdle EXCEPT !.kind = "did", !.x = URL(d, None), !.step = "value"]
    \/ \E u \in Locators :
          sx = [SyntaxIdle EXCEPT !.kind = "url", !.x = u, !.step = "value"]
    \/ \E t \in Texts :
          sx = [SyntaxIdle EXCEPT !.kind = "text", !.text = t, !.step = "text"]
    \/ \E t \in DidTexts :
          sx = [SyntaxIdle EXCEPT !.kind = "didtext", !.text = t, !.step = "text"]
    \/ \E u \in JoinBases : \E t \in JoinTexts :
          sx = [SyntaxIdle EXCEPT !.kind = "join", !.x = u, !.text = t, !.step = "text"]

\* x.to_string() on an Identifier
DidToString ==
    /\ sx.kind = "did" /\ sx.step = "value"
    /\ sx' = [sx EXCEPT !.step = "text", !.text = DID_to_string(sx.x.did)]
    /\ UNCHANGED <<cx, dx, r, remote_cache, remote, last>>

\* x.to_string() on a Locator
UrlToString ==
    /\ sx.kind = "url" /\ sx.step = "value"
    /\ sx' = [sx EXCEPT !.step = "text", !.text = URL_to_string(sx.x)]
    /\ UNCHANGED <<cx, dx, r, remote_cache, remote, last>>

\* DID::parse(text)
DidParse ==
    /\ sx.step = "text" /\ sx.kind \in {"did", "didtext"} /\ IsNone(sx.did_res)
    /\ sx' = [sx EXCEPT !.did_res = Some(DID_parse(sx.text))]
    /\ UNCHANGED <<cx, dx, r, remote_cache, remote, last>>

\* URL::parse(text)
UrlParse ==
    /\ sx.step = "text" /\ sx.kind \in {"url", "text", "didtext"} /\ IsNone(sx.url_res)
    /\ sx' = [sx EXCEPT !.url_res = Some(URL_parse(sx.text))]
    /\ UNCHANGED <<cx, dx, r, remote_cache, remote, last>>

\* x.join(text)
UrlJoin ==
    /\ sx.step = "text" /\ sx.kind = "join" /\ IsNone(sx.url_res)
    /\ sx' = [sx EXCEPT !.url_res = Some(URL_join(sx.x, sx.text))]
    /\ UNCHANGED <<cx, dx, r, remote_cache, remote, last>>

(***************************************************************************)
(* src/document.rs: the fields of a Document the registry reads.           *)
(*                                                                         *)
(* Either<L, R> is a record of two Options, one of them set.  A            *)
(* BTreeSet<AlsoKnownAsEither> is a sequence in the set's order; a         *)
(* BTreeSet<DID> whose order is never observed is a set.  A Url is the     *)
(* byte string of its serialization.                                       *)
(***************************************************************************)
Left(v) == [left |-> Some(v), right |-> None]
Right(v) == [left |-> None, right |-> Some(v)]

Document(id, also_known_as, controller) ==
    [id |-> id, also_known_as |-> also_known_as, controller |-> controller,
     verification_method |-> None]

\* derive(Ord) for DID: by name, then by id
DIDLess(a, b) == BytesLess(a.name, b.name) \/ (a.name = b.name /\ BytesLess(a.id, b.id))

\* derive(Ord) for AlsoKnownAsEither: Left before Right, then by the value
AkaLess(a, b) ==
    IF IsSome(a.left)
    THEN (IF IsSome(b.left) THEN DIDLess(Unwrap(a.left), Unwrap(b.left)) ELSE TRUE)
    ELSE (IF IsSome(b.left) THEN FALSE ELSE BytesLess(Unwrap(a.right), Unwrap(b.right)))

\* the iteration order of a BTreeSet<AlsoKnownAsEither> holding the entries S
RECURSIVE AkaSet(_)
AkaSet(S) ==
    IF S = {} THEN <<>>
    ELSE LET m == CHOOSE e \in S : \A f \in S \ {e} : AkaLess(e, f)
         IN <<m>> \o AkaSet(S \ {m})

\* a Document with a verification_method field
DocumentWith(id, verification_method) ==
    [Document(id, None, None) EXCEPT !.verification_method = verification_method]

(***************************************************************************)
(* Ord, as derive(Ord) writes it: an Ordering is -1, 0 or 1, a struct is   *)
(* compared field by field in the order of declaration, None is below      *)
(* every Some.                                                             *)
(***************************************************************************)
CmpInt(a, b) == IF a < b THEN -1 ELSE IF a > b THEN 1 ELSE 0

CmpBytes(a, b) == IF a = b THEN 0 ELSE IF BytesLess(a, b) THEN -1 ELSE 1

\* Ord for Option<T>, when the two are not both Some
CmpPresence(a, b) == CmpInt(Len(a), Len(b))

CmpOptBytes(a, b) ==
    IF IsSome(a) /\ IsSome(b) THEN CmpBytes(Unwrap(a), Unwrap(b)) ELSE CmpPresence(a, b)

\* the first comparison of cs that is not Equal
Lex(cs) ==
    LET nz == {i \in 1..Len(cs) : cs[i] # 0}
    IN IF nz = {} THEN 0 ELSE cs[CHOOSE i \in nz : \A j \in nz : i <= j]

DID_cmp(a, b) == Lex(<<CmpBytes(a.name, b.name), CmpBytes(a.id, b.id)>>)

VersionTime_cmp(a, b) ==
    Lex(<<CmpInt(a.year, b.year), CmpInt(a.month, b.month), CmpInt(a.day, b.day),
          CmpInt(a.hour, b.hour), CmpInt(a.minute, b.minute), CmpInt(a.second, b.second)>>)

\* Ord for BTreeMap<Vec<u8>, Vec<u8>>: the entries in order, key before value
RECURSIVE BTreeMap_cmp(_, _)
BTreeMap_cmp(a, b) ==
    IF a = <<>> THEN (IF b = <<>> THEN 0 ELSE -1)
    ELSE IF b = <<>> THEN 1
    ELSE LET c == Lex(<<CmpBytes(Head(a).k, Head(b).k), CmpBytes(Head(a).v, Head(b).v)>>)
         IN IF c # 0 THEN c ELSE BTreeMap_cmp(Tail(a), Tail(b))

CmpOptTime(a, b) ==
    IF IsSome(a) /\ IsSome(b) THEN VersionTime_cmp(Unwrap(a), Unwrap(b)) ELSE CmpPresence(a, b)

CmpOptMap(a, b) ==
    IF IsSome(a) /\ IsSome(b) THEN BTreeMap_cmp(Unwrap(a), Unwrap(b)) ELSE CmpPresence(a, b)

URLParameters_cmp(a, b) ==
    Lex(<<CmpOptBytes(a.path, b.path),
          CmpOptBytes(a.fragment, b.fragment),
          CmpOptBytes(a.service, b.service),
          CmpOptBytes(a.relative_ref, b.relative_ref),
          CmpOptBytes(a.version_id, b.version_id),
          CmpOptTime(a.version_time, b.version_time),
          CmpOptBytes(a.hash_link, b.hash_link),
          CmpOptMap(a.extra_query, b.extra_query)>>)

CmpOptParameters(a, b) ==
    IF IsSome(a) /\ IsSome(b) THEN URLParameters_cmp(Unwrap(a), Unwrap(b)) ELSE CmpPresence(a, b)

URL_cmp(a, b) ==
    Lex(<<DID_cmp(a.did, b.did), CmpOptParameters(a.parameters, b.parameters)>>)

(***************************************************************************)
(* VerificationMethod.  typ is the index of the variant of                 *)
(* VerificationMethodType.  A JWK is its key id and its key material; a    *)
(* MultiBase is a byte string.                                             *)
(***************************************************************************)
JWK(key_id, key) == [key_id |-> key_id, key |-> key]

\* the DefaultHasher of a key id: a number that differs for the key ids that differ
KeyIdHash(key_id) == IF IsNone(key_id) THEN 0 ELSE 1 + Unwrap(key_id)[1]

\* impl PartialOrd for JWK: by the hash of the key id
JWK_cmp(a, b) == CmpInt(KeyIdHash(a.key_id), KeyIdHash(b.key_id))

CmpOptJWK(a, b) ==
    IF IsSome(a) /\ IsSome(b) THEN JWK_cmp(Unwrap(a), Unwrap(b)) ELSE CmpPresence(a, b)

VerificationMethod(id, controller, typ, public_key_jwk, public_key_multibase) ==
    [id |-> id, controller |-> controller, typ |-> typ,
     public_key_jwk |-> public_key_jwk, public_key_multibase |-> public_key_multibase]

\* derive(Ord) for VerificationMethod
VerificationMethod_cmp(a, b) ==
    Lex(<<URL_cmp(a.id, b.id),
          DID_cmp(a.controller, b.controller),
          CmpInt(a.typ, b.typ),
          CmpOptJWK(a.public_key_jwk, b.public_key_jwk),
          CmpOptBytes(a.public_key_multibase, b.public_key_multibase)>>)

\* BTreeSet<VerificationMethod>::insert, the set held as the set of its members: a
\* value that compares Equal to a member is not added
BTreeSet_insert(set, vm) ==
    IF \E m \in set : VerificationMethod_cmp(m, vm) = 0 THEN set ELSE set \cup {vm}

BothKeys == "Verification method provided both JWK and multibase keys"

\* VerificationMethod::valid with the test of one key only
VerificationMethod_valid_AnyKey(vm) ==
    IF IsSome(vm.public_key_jwk) THEN ErrUrl(BothKeys, vm.id) ELSE Ok(<<>>)

\* VerificationMethod::valid
VerificationMethod_valid(vm) ==
    IF IsSome(vm.public_key_jwk) /\ IsSome(vm.public_key_multibase)
    THEN ErrUrl(BothKeys, vm.id)
    ELSE Ok(<<>>)

\* derive(Ord) for VerificationMethodEither: Left before Right, then by the value
VerificationMethodEither_cmp(a, b) ==
    IF IsSome(a.left)
    THEN (IF IsSome(b.left)
          THEN VerificationMethod_cmp(Unwrap(a.left), Unwrap(b.left)) ELSE -1)
    ELSE (IF IsSome(b.left) THEN 1 ELSE URL_cmp(Unwrap(a.right), Unwrap(b.right)))

\* the iteration order of a BTreeSet<VerificationMethodEither> holding the entries S
RECURSIVE VerificationMethods(_)
VerificationMethods(S) ==
    IF S = {} THEN <<>>
    ELSE LET m == CHOOSE e \in S : \A f \in S \ {e} : VerificationMethodEither_cmp(e, f) < 0
         IN <<m>> \o VerificationMethods(S \ {m})

NoRegistryProvided ==
    "DID URL provided as verification method, but could not look up in registry because none was provided"

NotRetrieved == "Could not retrieve DID from DID URL in registry"

NotLocated == "Could not locate verification method prescribed by DID URL in registry"

(***************************************************************************)
(* src/registry.rs: each method gives the map after the call, what the     *)
(* call returned and the Urls it asked the fetch collaborator for, in the  *)
(* order of the requests.                                                  *)
(***************************************************************************)
Outcome(reg, res) == [reg |-> reg, res |-> res, fetched |-> <<>>]

\* the outcome of what a method does after the requests of log
After(log, out) == [out EXCEPT !.fetched = log \o @]

contains_key(reg, did) == did \in DOMAIN reg

\* BTreeMap::insert
Put(reg, did, doc) == [d \in DOMAIN reg \cup {did} |-> IF d = did THEN doc ELSE reg[d]]

\* Registry::insert without the contains_key test: a stored document is replaced
Registry_insert_Replacing(reg, doc) == Outcome(Put(reg, doc.id, doc), Ok(<<>>))

Registry_insert(reg, doc) ==
    IF contains_key(reg, doc.id)
    THEN Outcome(reg, ErrDid("DID already exists in registry", doc.id))
    ELSE Outcome(Put(reg, doc.id, doc), Ok(<<>>))

Registry_get(reg, did) == IF did \in DOMAIN reg THEN Some(reg[did]) ELSE None

\* VerificationMethods::valid: the loop over the set in its order, vs what is left of it
RECURSIVE VerificationMethods_valid(_, _)
VerificationMethods_valid(vs, registry) ==
    IF vs = <<>> THEN Ok(<<>>)
    ELSE IF IsSome(Head(vs).left)
    THEN LET res == VerificationMethod_valid(Unwrap(Head(vs).left))
         IN IF ~res.ok THEN res ELSE VerificationMethods_valid(Tail(vs), registry)
    ELSE LET url == Unwrap(Head(vs).right)
         IN IF IsNone(registry) THEN ErrUrl(NoRegistryProvided, url)
            ELSE LET doc == Registry_get(Unwrap(registry), to_did(url))
                 IN IF IsNone(doc) THEN ErrUrl(NotRetrieved, url)
                    ELSE IF IsSome(Unwrap(doc).verification_method)
                    THEN (IF \E vm \in Unwrap(Unwrap(doc).verification_method) : vm.id = url
                          THEN Ok(<<>>)
                          ELSE ErrUrl(NotLocated, url))
                    ELSE VerificationMethods_valid(Tail(vs), registry)

Registry_remove(reg, did) ==
    Outcome([d \in DOMAIN reg \ {did} |-> reg[d]], Registry_get(reg, did))

Registry_follow(reg, url) == Registry_get(reg, to_did(url))

NotInRegistry == "DID did not exist in the registry"

\* Registry::controls without the lookup of the controller
Registry_controls_NoControllerLookup(reg, did, controller) ==
    LET did_doc == Registry_get(reg, did)
    IN IF IsSome(did_doc)
       THEN IF did = controller THEN Ok(TRUE)
            ELSE LET c == Unwrap(did_doc).controller
                 IN IF IsSome(c)
                    THEN IF IsSome(Unwrap(c).left)
                         THEN Ok(Unwrap(Unwrap(c).left) = controller)
                         ELSE Ok(controller \in Unwrap(Unwrap(c).right))
                    ELSE Ok(FALSE)
       ELSE ErrDid(NotInRegistry, did)

\* Registry::controls without the did == controller shortcut
Registry_controls_NoShortcut(reg, did, controller) ==
    LET did_doc == Registry_get(reg, did)
    IN IF IsSome(did_doc)
       THEN IF IsSome(Registry_get(reg, controller))
            THEN LET c == Unwrap(did_doc).controller
                 IN IF IsSome(c)
                    THEN IF IsSome(Unwrap(c).left)
                         THEN Ok(Unwrap(Unwrap(c).left) = controller)
                         ELSE Ok(controller \in Unwrap(Unwrap(c).right))
                    ELSE Ok(FALSE)
            ELSE ErrDid(NotInRegistry, did)
       ELSE ErrDid(NotInRegistry, did)

Registry_controls(reg, did, controller) ==
    LET did_doc == Registry_get(reg, did)
    IN IF IsSome(did_doc)
       THEN IF did = controller THEN Ok(TRUE)
            ELSE IF IsSome(Registry_get(reg, controller))
                 THEN LET c == Unwrap(did_doc).controller
                      IN IF IsSome(c)
                         THEN IF IsSome(Unwrap(c).left)
                              THEN Ok(Unwrap(Unwrap(c).left) = controller)
                              ELSE Ok(controller \in Unwrap(Unwrap(c).right))
                         ELSE Ok(FALSE)
                 ELSE ErrDid(NotInRegistry, did)
       ELSE ErrDid(NotInRegistry, did)

CacheDisabled == "Remote caching of documents is disabled"

\* Registry::cache_document without the test of remote_cache
cache_document_IgnoringFlag(reg, url) ==
    LET got == remote[url]
    IN After(<<url>>,
             IF ~got.ok THEN Outcome(reg, got)
             ELSE LET ins == Registry_insert(reg, Unwrap(got.val))
                  IN IF ~ins.res.ok THEN Outcome(ins.reg, ErrOf(ins.res.err))
                     ELSE Outcome(ins.reg, Ok(Unwrap(got.val))))

\* Registry::cache_document: the answer of the fetch collaborator is stored
cache_document(reg, url) ==
    IF remote_cache
    THEN LET got == remote[url]
         IN After(<<url>>,
                  IF ~got.ok THEN Outcome(reg, got)
                  ELSE LET ins == Registry_insert(reg, Unwrap(got.val))
                       IN IF ~ins.res.ok THEN Outcome(ins.reg, ErrOf(ins.res.err))
                          ELSE Outcome(ins.reg, Ok(Unwrap(got.val))))
    ELSE Outcome(reg, Err(CacheDisabled))

\* the loop of Registry::compare_aka over the other document's entries
RECURSIVE CompareAkaLoop(_, _, _, _, _)
CompareAkaLoop(reg, did, this_did, other_doc, entries) ==
    IF entries = <<>> THEN Outcome(reg, Ok(FALSE))
    ELSE LET e == Head(entries)
             got == IF IsSome(e.left) THEN Outcome(reg, Ok(Unwrap(e.left)))
                    ELSE LET f == cache_document(reg, Unwrap(e.right))
                         IN IF f.res.ok THEN [f EXCEPT !.res = Ok(Unwrap(f.res.val).id)] ELSE f
         IN IF ~got.res.ok THEN got
            ELSE IF Unwrap(got.res.val) = did /\ this_did = other_doc.id
                 THEN [got EXCEPT !.res = Ok(TRUE)]
            ELSE After(got.fetched,
                       CompareAkaLoop(got.reg, did, this_did, other_doc, Tail(entries)))

\* Registry::compare_aka without the search of the other document's entries
compare_aka_OneWay(reg, did, this_did, other_doc) ==
    Outcome(reg, Ok(this_did = other_doc.id))

compare_aka(reg, did, this_did, other_doc) ==
    IF IsSome(other_doc.also_known_as)
    THEN CompareAkaLoop(reg, did, this_did, other_doc, Unwrap(other_doc.also_known_as))
    ELSE Outcome(reg, Ok(FALSE))

\* the loop of Registry::equivalent_to_did over this document's entries
RECURSIVE EquivalentLoop(_, _, _, _)
EquivalentLoop(reg, did, other_doc, entries) ==
    IF entries = <<>> THEN Outcome(reg, Ok(FALSE))
    ELSE LET e == Head(entries)
             this == IF IsSome(e.left) THEN Outcome(reg, Ok(Unwrap(e.left)))
                     ELSE LET f == cache_document(reg, Unwrap(e.right))
                          IN IF f.res.ok THEN [f EXCEPT !.res = Ok(Unwrap(f.res.val).id)] ELSE f
         IN IF ~this.res.ok THEN this
            ELSE LET c == After(this.fetched,
                                compare_aka(this.reg, did, Unwrap(this.res.val), other_doc))
                 IN IF ~c.res.ok THEN c
                    ELSE IF Unwrap(c.res.val) THEN [c EXCEPT !.res = Ok(TRUE)]
                    ELSE After(c.fetched, EquivalentLoop(c.reg, did, other_doc, Tail(entries)))

\* Registry::equivalent_to_did with both errors naming did, as Registry::controls does
Registry_equivalent_to_did_NamesDid(reg, did, other) ==
    LET doc == Registry_get(reg, did)
        other_doc == Registry_get(reg, other)
    IN IF IsNone(doc) THEN Outcome(reg, ErrDid(NotInRegistry, did))
       ELSE IF IsNone(other_doc) THEN Outcome(reg, ErrDid(NotInRegistry, did))
       ELSE IF IsNone(Unwrap(doc).also_known_as) THEN Outcome(reg, Ok(FALSE))
       ELSE EquivalentLoop(reg, did, Unwrap(other_doc), Unwrap(Unwrap(doc).also_known_as))

Registry_equivalent_to_did(reg, did, other) ==
    LET doc == Registry_get(reg, did)
        other_doc == Registry_get(reg, other)
    IN IF IsNone(doc) THEN Outcome(reg, ErrDid(NotInRegistry, did))
       ELSE IF IsNone(other_doc) THEN Outcome(reg, ErrDid(NotInRegistry, other))
       ELSE IF IsNone(Unwrap(doc).also_known_as) THEN Outcome(reg, Ok(FALSE))
       ELSE EquivalentLoop(reg, did, Unwrap(other_doc), Unwrap(Unwrap(doc).also_known_as))


(***************************************************************************)
(* The registry's world: the Identifiers, the Urls, the documents a caller *)
(* may insert and what the fetch collaborator may answer.                  *)
(***************************************************************************)
Alice == DID(<<116>>, <<97>>)
Bob == DID(<<116>>, <<98>>)
Charlie == DID(<<116>>, <<99>>)
DIDs == {Alice, Bob, Charlie}

\* "u1"
Urls == {<<117, 49>>}

\* the Identifiers whose documents carry an alsoKnownAs value, and those whose
\* documents carry a controller value
AkaDIDs == {Alice, Bob}
ControlledDIDs == {Alice}

\* the alsoKnownAs values of a document of did: up to MaxAka entries naming the other
\* Identifiers and the Urls
AkaValues(did) ==
    LET entries == {Left(d) : d \in DIDs \ {did}} \cup {Right(u) : u \in Urls}
    IN {Some(AkaSet(S)) : S \in {T \in SUBSET entries : Cardinality(T) <= MaxAka}}

\* the controller values of a document of did: a single Identifier, or a set of them
ControllerValues(did) ==
    {Some(Left(d)) : d \in DIDs \ {did}} \cup {Some(Right(S)) : S \in SUBSET (DIDs \ {did})}

DocumentsOf(did) ==
    {Document(did, None, None)}
        \cup (IF did \in AkaDIDs
              THEN {Document(did, aka, None) : aka \in AkaValues(did)} ELSE {})
        \cup (IF did \in ControlledDIDs
              THEN {Document(did, None, c) : c \in ControllerValues(did)} ELSE {})

Documents == UNION {DocumentsOf(did) : did \in DIDs}

\* a Locator of each Identifier: did:t:x/p#f
LocatorOf(did) ==
    URL(did, Some([DefaultParameters EXCEPT !.path = Some(<<112>>), !.fragment = Some(<<102>>)]))

\* what a GET of a Url answers: a failure, or a document of an Identifier
FetchAnswers == {Err("fetch failed"), Ok(Document(Bob, None, None))}

EmptyRegistry == [d \in {} |-> Document(d, None, None)]

NoCall ==
    [op |-> "none", did |-> None, other |-> None, doc |-> None, url |-> None,
     before |-> EmptyRegistry, res |-> Ok(<<>>), fetched |-> <<>>]

Call(op, did, other, doc, url, reg, res) ==
    [op |-> op, did |-> did, other |-> other, doc |-> doc, url |-> url,
     before |-> reg, res |-> res, fetched |-> <<>>]

\* Registry::default() or Registry::new_with_remote_cache()
RegistryInit ==
    /\ r = EmptyRegistry
    /\ remote_cache \in BOOLEAN
    /\ remote \in [Urls -> FetchAnswers]
    /\ last = NoCall

RegistryIdle ==
    /\ r = EmptyRegistry
    /\ remote_cache = FALSE
    /\ remote = [u \in Urls |-> Err("fetch failed")]
    /\ last = NoCall

\* reg.insert(doc)
Insert ==
    \E doc \in Documents :
        /\ LET out == Registry_insert(r, doc)
           IN /\ r' = out.reg
              /\ last' = Call("insert", None, None, Some(doc), None, r, out.res)
        /\ UNCHANGED <<cx, sx, dx, remote_cache, remote>>

\* reg.remove(&did)
Remove ==
    \E did \in DIDs :
        /\ LET out == Registry_remove(r, did)
           IN /\ r' = out.reg
              /\ last' = Call("remove", Some(did), None, None, None, r, Ok(out.res))
        /\ UNCHANGED <<cx, sx, dx, remote_cache, remote>>

\* reg.get(&did)
Get ==
    \E did \in DIDs :
        /\ last' = Call("get", Some(did), None, None, None, r, Ok(Registry_get(r, did)))
        /\ UNCHANGED <<cx, sx, dx, r, remote_cache, remote>>

\* reg.follow(url)
Follow ==
    \E did \in DIDs :
        /\ last' = Call("follow", None, None, None, Some(LocatorOf(did)), r,
                        Ok(Registry_follow(r, LocatorOf(did))))
        /\ UNCHANGED <<cx, sx, dx, r, remote_cache, remote>>

\* reg.controls(&did, &controller)
Controls ==
    \E did \in DIDs, controller \in DIDs :
        /\ last' = Call("controls", Some(did), Some(controller), None, None, r,
                        Registry_controls(r, did, controller))
        /\ UNCHANGED <<cx, sx, dx, r, remote_cache, remote>>

\* reg.equivalent_to_did(&did, &other)
EquivalentToDid ==
    \E did \in DIDs, other \in DIDs :
        /\ LET out == Registry_equivalent_to_did(r, did, other)
           IN /\ r' = out.reg
              /\ last' = [Call("equivalent_to_did", Some(did), Some(other), None, None, r,
                               out.res) EXCEPT !.fetched = out.fetched]
        /\ UNCHANGED <<cx, sx, dx, remote_cache, remote>>

(***************************************************************************)
(* The validation harness: verification methods are inserted into a set,   *)
(* one method is validated, or a set of methods and references is          *)
(* validated against the registry.                                         *)
(***************************************************************************)
\* did:t:a#k1, did:t:a#k2, did:t:b#k1, did:t:c#k1
MethodUrl(did, fragment) == URL(did, Some([DefaultParameters EXCEPT !.fragment = Some(fragment)]))
K1 == MethodUrl(Alice, <<107, 49>>)
K2 == MethodUrl(Alice, <<107, 50>>)
KB == MethodUrl(Bob, <<107, 49>>)
KC == MethodUrl(Charlie, <<107, 49>>)

\* JsonWebKey2020 and Ed25519VerificationKey2018
SampleTypes == {0, 2}

\* two keys of different key ids, and a third key with the key id of the first
SampleJWKs == {JWK(Some(<<49>>), 1), JWK(Some(<<50>>), 2), JWK(Some(<<49>>), 3)}

SampleMethods ==
    {VerificationMethod(id, c, t, jwk, mb) :
        id \in {K1, K2}, c \in {Alice, Bob}, t \in SampleTypes,
        jwk \in Opt(SampleJWKs), mb \in Opt({<<122>>})}

\* a method of each Locator, with one key
MethodOf(url) == VerificationMethod(url, to_did(url), 0, Some(JWK(Some(<<49>>), 1)), None)

\* an inline method with both keys
TwoKeys == VerificationMethod(K2, Alice, 0, Some(JWK(Some(<<49>>), 1)), Some(<<122>>))

\* the sets given to VerificationMethods::valid
SampleReferenceSets ==
    {VerificationMethods({Left(m) : m \in ms} \cup {Right(u) : u \in us}) :
        ms \in SUBSET {MethodOf(K1), TwoKeys}, us \in SUBSET {K1, K2, KB, KC}}

\* the registries they are validated against: Charlie is never stored
AliceDocuments ==
    {DocumentWith(Alice, None), DocumentWith(Alice, Some({MethodOf(K1)})),
     DocumentWith(Alice, Some({MethodOf(K1), MethodOf(K2)}))}

BobDocuments ==
    {DocumentWith(Bob, None), DocumentWith(Bob, Some({})), DocumentWith(Bob, Some({MethodOf(KB)}))}

ValidationRegistries ==
    {EmptyRegistry}
        \cup {Put(EmptyRegistry, Alice, a) : a \in AliceDocuments}
        \cup {Put(EmptyRegistry, Bob, b) : b \in BobDocuments}
        \cup {Put(Put(EmptyRegistry, Alice, a), Bob, b) : a \in AliceDocuments, b \in BobDocuments}

ValidationIdle ==
    [kind |-> "off", set |-> {}, vm |-> None, refs |-> <<>>, registry |-> FALSE, res |-> None]

ValidationInit ==
    \/ /\ dx = [ValidationIdle EXCEPT !.kind = "set"]
       /\ r = EmptyRegistry
    \/ /\ dx \in {[ValidationIdle EXCEPT !.kind = "vm", !.vm = Some(m)] : m \in SampleMethods}
       /\ r = EmptyRegistry
    \/ /\ dx \in {[ValidationIdle EXCEPT !.kind = "refs", !.refs = vs, !.registry = b] :
                    vs \in SampleReferenceSets, b \in BOOLEAN}
       /\ r \in ValidationRegistries

\* set.insert(vm)
InsertMethod ==
    /\ dx.kind = "set" /\ Cardinality(dx.set) < MaxMethods
    /\ \E vm \in SampleMethods : dx' = [dx EXCEPT !.set = BTreeSet_insert(dx.set, vm)]
    /\ UNCHANGED <<cx, sx, r, remote_cache, remote, last>>

\* vm.valid()
MethodValid ==
    /\ dx.kind = "vm" /\ IsNone(dx.res)
    /\ dx' = [dx EXCEPT !.res = Some(VerificationMethod_valid(Unwrap(dx.vm)))]
    /\ UNCHANGED <<cx, sx, r, remote_cache, remote, last>>

\* refs.valid(Some(&registry)) and refs.valid(None)
MethodsValid ==
    /\ dx.kind = "refs" /\ IsNone(dx.res)
    /\ dx' = [dx EXCEPT !.res = Some(VerificationMethods_valid(dx.refs,
                                         IF dx.registry THEN Some(r) ELSE None))]
    /\ UNCHANGED <<cx, sx, r, remote_cache, remote, last>>

(***************************************************************************)
(* The specifications.                                                     *)
(***************************************************************************)
Init == cx = CodecIdle /\ sx = SyntaxIdle /\ dx = ValidationIdle /\ RegistryInit

Next == Insert \/ Remove \/ Get \/ Follow \/ Controls \/ EquivalentToDid

Spec == Init /\ [][Next]_vars

InitCodec == CodecInit /\ sx = SyntaxIdle /\ dx = ValidationIdle /\ RegistryIdle

NextCodec == Encode \/ EncodeMethodId \/ Decode \/ DecodeRaw \/ ValidateMethodName

SpecCodec == InitCodec /\ [][NextCodec]_vars

InitSyntax == cx = CodecIdle /\ SyntaxInit /\ dx = ValidationIdle /\ RegistryIdle

NextSyntax == DidToString \/ UrlToString \/ DidParse \/ UrlParse \/ UrlJoin

SpecSyntax == InitSyntax /\ [][NextSyntax]_vars

InitDocument ==
    /\ cx = CodecIdle /\ sx = SyntaxIdle /\ ValidationInit
    /\ remote_cache = FALSE
    /\ remote = [u \in Urls |-> Err("fetch failed")]
    /\ last = NoCall

NextDocument == InsertMethod \/ MethodValid \/ MethodsValid

SpecDocument == InitDocument /\ [][NextDocument]_vars

(***************************************************************************)
(* The properties.                                                         *)
(***************************************************************************)

\* C1: formatting an Identifier and parsing the text gives the Identifier back,
\* byte for byte, whatever bytes its id holds.
C1_IdentifierRoundTrip ==
    (sx.kind = "did" /\ IsSome(sx.did_res)) => Unwrap(sx.did_res) = Ok(sx.x.did)

\* the fields of a Locator's parameters, all unset when it has no parameters
FieldsOf(url) ==
    IF IsNone(url.parameters) THEN DefaultParameters ELSE Unwrap(url.parameters)

\* C2: formatting a Locator and parsing the text gives the Locator back, equal in
\* every field.
C2_LocatorRoundTrip ==
    (sx.kind = "url" /\ IsSome(sx.url_res))
    => /\ Unwrap(sx.url_res).ok
       /\ Unwrap(Unwrap(sx.url_res).val).did = sx.x.did
       /\ FieldsOf(Unwrap(Unwrap(sx.url_res).val)) = FieldsOf(sx.x)

\* C3: decoding the encoding of a byte sequence gives the byte sequence, for
\* url_encoded and for method_id_encoded alike.
C3_CodecIdentity == cx.step = "decoded" => cx.dec = cx.b

\* a sequence with a ':' and an escaped byte went through method_id_encoded and back
C3_Witness ==
    /\ cx.step = "decoded" /\ cx.variant = "method_id"
    /\ Contains(cx.b, ChColon) /\ Contains(cx.b, 255) /\ Contains(cx.enc, ChColon)
    /\ Len(cx.enc) > Len(cx.b)

\* whether doc names controller in its controller field
ListedAsController(doc, controller) ==
    /\ IsSome(doc.controller)
    /\ LET c == Unwrap(doc.controller)
       IN IF IsSome(c.left) THEN Unwrap(c.left) = controller
          ELSE controller \in Unwrap(c.right)

\* the documents of reg other than that of did are those of old
SameElsewhere(reg, old, did) ==
    /\ DOMAIN reg \ {did} = DOMAIN old \ {did}
    /\ \A d \in DOMAIN old \ {did} : reg[d] = old[d]

\* C4: the registry holds one document per Identifier, under its own id; an insert of
\* a stored id fails and changes nothing; an insert of an absent id succeeds and get
\* and follow then return that document; no operation but remove takes a stored
\* document away or alters it; after remove(id) get(id) is none and an insert with
\* that id succeeds.
C4_RegistryUniqueness ==
    /\ \A d \in DOMAIN r : r[d].id = d
    /\ last.op = "insert" =>
         LET doc == Unwrap(last.doc)
         IN IF doc.id \in DOMAIN last.before
            THEN ~last.res.ok /\ r = last.before
            ELSE /\ last.res.ok
                 /\ doc.id \in DOMAIN r /\ SameElsewhere(r, last.before, doc.id)
                 /\ Registry_get(r, doc.id) = Some(doc)
                 /\ Registry_follow(r, LocatorOf(doc.id)) = Some(doc)
    /\ last.op = "get" =>
         /\ r = last.before
         /\ last.res = Ok(IF Unwrap(last.did) \in DOMAIN r
                          THEN Some(r[Unwrap(last.did)]) ELSE None)
    /\ last.op = "follow" =>
         /\ r = last.before
         /\ last.res = Ok(IF Unwrap(last.url).did \in DOMAIN r
                          THEN Some(r[Unwrap(last.url).did]) ELSE None)
    /\ last.op = "remove" =>
         LET did == Unwrap(last.did)
         IN /\ did \notin DOMAIN r /\ SameElsewhere(r, last.before, did)
            /\ Registry_get(r, did) = None
            /\ \A doc \in DocumentsOf(did) : Registry_insert(r, doc).res.ok
    /\ last.op # "remove" => \A d \in DOMAIN last.before : d \in DOMAIN r /\ r[d] = last.before[d]

\* an insert of a stored id with another document failed
C4_Witness ==
    /\ last.op = "insert" /\ ~last.res.ok
    /\ Unwrap(last.doc).id \in DOMAIN r
    /\ r[Unwrap(last.doc).id] # Unwrap(last.doc)

\* whether every alsoKnownAs entry of doc is a literal Identifier
LiteralOnly(doc) ==
    IsNone(doc.also_known_as)
        \/ \A i \in 1..Len(Unwrap(doc.also_known_as)) : IsSome(Unwrap(doc.also_known_as)[i].left)

\* the Identifiers doc lists as literal alsoKnownAs entries
LiteralAka(doc) ==
    IF IsNone(doc.also_known_as) THEN {}
    ELSE {Unwrap(Unwrap(doc.also_known_as)[i].left) :
             i \in {j \in 1..Len(Unwrap(doc.also_known_as)) :
                       IsSome(Unwrap(doc.also_known_as)[j].left)}}

\* C5: with a and b stored and only literal alsoKnownAs entries, equivalent_to_did(a, b)
\* is true exactly when each lists the other, false (no error) otherwise, and the
\* call with the arguments exchanged gives the same answer.
C5_MutualEquivalence ==
    (/\ last.op = "equivalent_to_did"
     /\ Unwrap(last.did) \in DOMAIN last.before
     /\ Unwrap(last.other) \in DOMAIN last.before
     /\ LiteralOnly(last.before[Unwrap(last.did)])
     /\ LiteralOnly(last.before[Unwrap(last.other)]))
    => LET a == Unwrap(last.did)
           b == Unwrap(last.other)
       IN /\ last.res = Ok(b \in LiteralAka(last.before[a]) /\ a \in LiteralAka(last.before[b]))
          /\ Registry_equivalent_to_did(last.before, b, a).res = last.res

\* two stored documents that list each other were found equivalent
C5_Witness ==
    /\ last.op = "equivalent_to_did" /\ last.res = Ok(TRUE)
    /\ Unwrap(last.did) # Unwrap(last.other)
    /\ LiteralOnly(last.before[Unwrap(last.did)])
    /\ LiteralOnly(last.before[Unwrap(last.other)])
    /\ Len(Unwrap(last.before[Unwrap(last.did)].also_known_as)) = 2

\* C6: controls(subject, controller) with subject stored and subject # controller is
\* an error when controller is not stored, and otherwise true exactly when the
\* subject's document names controller as its controller or in its controller set.
C6_Controls ==
    (/\ last.op = "controls"
     /\ Unwrap(last.did) \in DOMAIN last.before
     /\ Unwrap(last.did) # Unwrap(last.other))
    => IF Unwrap(last.other) \notin DOMAIN last.before
       THEN ~last.res.ok
       ELSE last.res = Ok(ListedAsController(last.before[Unwrap(last.did)], Unwrap(last.other)))

\* a stored controller listed in the subject's controller set was recognised
C6_Witness ==
    /\ last.op = "controls" /\ last.res = Ok(TRUE)
    /\ Unwrap(last.did) # Unwrap(last.other)
    /\ IsSome(Unwrap(last.before[Unwrap(last.did)].controller).right)
    /\ Cardinality(Unwrap(Unwrap(last.before[Unwrap(last.did)].controller).right)) = 2

\* C7 as stated: controls(x, x) is true in every registry state, x stored or not.
C7_ReflexiveAlways ==
    (last.op = "controls" /\ Unwrap(last.did) = Unwrap(last.other)) => last.res = Ok(TRUE)

\* C7: controls(x, x) is true for every x stored in the registry, whatever its
\* document's controller field; for an x that is not stored it is an error naming x.
C7_ReflexiveWhenStored ==
    (last.op = "controls" /\ Unwrap(last.did) = Unwrap(last.other))
    => IF Unwrap(last.did) \in DOMAIN last.before
       THEN last.res = Ok(TRUE)
       ELSE ~last.res.ok /\ last.res.err.did = last.did

\* controls(x, x) answered true for a stored x whose document has no controller
C7_Witness ==
    /\ last.op = "controls" /\ Unwrap(last.did) = Unwrap(last.other)
    /\ Unwrap(last.did) \in DOMAIN last.before
    /\ IsNone(last.before[Unwrap(last.did)].controller)
    /\ last.res = Ok(TRUE)

\* C8: equivalent_to_did(a, b) with a or b not stored is an error that names the
\* missing Identifier, a when a is missing and b otherwise, and the registry is as
\* it was: no alsoKnownAs entry has been resolved.
C8_EquivalentMissing ==
    (/\ last.op = "equivalent_to_did"
     /\ (Unwrap(last.did) \notin DOMAIN last.before
            \/ Unwrap(last.other) \notin DOMAIN last.before))
    => /\ ~last.res.ok
       /\ last.res.err.msg = NotInRegistry
       /\ last.res.err.did = IF Unwrap(last.did) \notin DOMAIN last.before
                             THEN last.did ELSE last.other
       /\ r = last.before

\* a is stored with a Url entry the fetch collaborator would answer, b is missing
C8_Witness ==
    /\ last.op = "equivalent_to_did" /\ ~last.res.ok
    /\ Unwrap(last.did) \in DOMAIN last.before
    /\ Unwrap(last.other) \notin DOMAIN last.before
    /\ ~LiteralOnly(last.before[Unwrap(last.did)])
    /\ remote_cache /\ \A u \in Urls : remote[u].ok /\ Unwrap(remote[u].val).id \notin DOMAIN r

\* NAME and REST of a text did:NAME:REST, by the position of the first ':' after the
\* scheme
NameOf(text) ==
    LET tail == Drop(text, Len(DidPrefix))
    IN Take(tail, IndexOf(tail, ChColon) - 1)

RestOf(text) ==
    LET tail == Drop(text, Len(DidPrefix))
    IN Drop(tail, IndexOf(tail, ChColon))

IsDidText(text) ==
    /\ Len(text) >= Len(DidPrefix) /\ Take(text, Len(DidPrefix)) = DidPrefix
    /\ Contains(Drop(text, Len(DidPrefix)), ChColon)

\* the first of '?' and '#' in rest is a '#'
FragmentFirst(rest) ==
    LET h == IndexOf(rest, ChHash)
        q == IndexOf(rest, ChQuest)
    IN h > 0 /\ (q = 0 \/ h < q)

\* a '?' occurs in rest before any '#'
QueryFirst(rest) ==
    LET h == IndexOf(rest, ChHash)
        q == IndexOf(rest, ChQuest)
    IN q > 0 /\ (h = 0 \/ q < h)

\* the id and the path of the text before the first '?' or '#'
IdOf(pre) ==
    IF Contains(pre, ChSlash) THEN Take(pre, IndexOf(pre, ChSlash) - 1) ELSE pre

PathOf(pre) ==
    IF Contains(pre, ChSlash) THEN Some(Drop(pre, IndexOf(pre, ChSlash))) ELSE None

\* the Locator a fragment-first text stands for
FragmentFirstLocator(text) ==
    LET rest == RestOf(text)
        h == IndexOf(rest, ChHash)
        pre == Take(rest, h - 1)
    IN URL(DID(url_decoded(NameOf(text)), url_decoded(IdOf(pre))),
           Some([DefaultParameters EXCEPT
                    !.path = MapDecoded(PathOf(pre)),
                    !.fragment = Some(url_decoded(Drop(rest, h)))]))

\* C9: when the first '?' or '#' of REST is a '#', URL::parse gives the decoded text
\* after that '#' as the fragment, no query field, and a path only when a '/' comes
\* before the '#': the text between the two, the id being the text before the '/'.
C9_FragmentFirst ==
    (/\ IsSome(sx.url_res) /\ IsDidText(sx.text)
     /\ FragmentFirst(RestOf(sx.text))
     /\ validate_method_name(NameOf(sx.text)))
    => Unwrap(sx.url_res) = Ok(FragmentFirstLocator(sx.text))

\* a text with a path before the '#' and a '?' and a '/' inside the fragment was parsed
C9_Witness ==
    /\ sx.kind = "text" /\ IsSome(sx.url_res) /\ Unwrap(sx.url_res).ok
    /\ FragmentFirst(RestOf(sx.text))
    /\ LET p == Unwrap(Unwrap(Unwrap(sx.url_res).val).parameters)
       IN /\ IsSome(p.path) /\ IsSome(p.fragment)
          /\ Contains(Unwrap(p.fragment), ChQuest) /\ Contains(Unwrap(p.fragment), ChSlash)

\* the outcome of URL::parse a query-first text stands for: the query fields read
\* from the text between the '?' and the first '#' after it
QueryFirstOutcome(text) ==
    LET rest == RestOf(text)
        q == IndexOf(rest, ChQuest)
        pre == Take(rest, q - 1)
        post == Drop(rest, q)
        h == IndexOf(post, ChHash)
        query == IF h > 0 THEN Take(post, h - 1) ELSE post
        fragment == IF h > 0 THEN Some(url_decoded(Drop(post, h))) ELSE None
    IN parse_query(URL(DID(url_decoded(NameOf(text)), url_decoded(IdOf(pre))),
                       Some([DefaultParameters EXCEPT
                                !.path = MapDecoded(PathOf(pre)),
                                !.fragment = fragment])),
                   query)

\* C10: when a '?' comes before any '#' in REST, URL::parse takes the id before the
\* first '/' that precedes the '?', the path between the two (none without a '/'),
\* the query from after the '?' up to the first '#' after it, and the fragment from
\* after that '#'.
C10_QueryFirst ==
    (/\ IsSome(sx.url_res) /\ IsDidText(sx.text)
     /\ QueryFirst(RestOf(sx.text))
     /\ validate_method_name(NameOf(sx.text)))
    => Unwrap(sx.url_res) = QueryFirstOutcome(sx.text)

\* a text with a path, a query and a fragment was parsed
C10_Witness ==
    /\ sx.kind = "text" /\ IsSome(sx.url_res) /\ Unwrap(sx.url_res).ok
    /\ QueryFirst(RestOf(sx.text))
    /\ LET p == Unwrap(Unwrap(Unwrap(sx.url_res).val).parameters)
       IN IsSome(p.path) /\ IsSome(p.fragment) /\ IsSome(p.extra_query)

\* C11: DID::parse succeeds exactly on the texts did:NAME:ID whose NAME, the text between
\* the prefix and the first ':' after it, is non-empty and made of [a-z0-9] only and
\* whose ID, everything after that ':', is non-empty; every other text fails.  Further
\* ':' stay in the id: an ID without '%' is the id of the result as it stands.
WellFormedDidText(text) ==
    /\ IsDidText(text)
    /\ NameOf(text) # <<>>
    /\ \A i \in 1..Len(NameOf(text)) : IsLower(NameOf(text)[i]) \/ IsDigit(NameOf(text)[i])
    /\ RestOf(text) # <<>>

C11_ParseExactly ==
    IsSome(sx.did_res) =>
        LET res == Unwrap(sx.did_res)
        IN /\ res.ok <=> WellFormedDidText(sx.text)
           /\ (res.ok /\ ~Contains(RestOf(sx.text), ChPct)) =>
                  /\ Unwrap(res.val).name = NameOf(sx.text)
                  /\ Unwrap(res.val).id = RestOf(sx.text)

\* a text with three ':' after the name was parsed into an id that holds them
C11_Witness ==
    /\ sx.kind = "didtext" /\ IsSome(sx.did_res) /\ Unwrap(sx.did_res).ok
    /\ Contains(Unwrap(Unwrap(sx.did_res).val).id, ChColon)

\* C12: DID::parse percent-decodes both halves of the text: the id of the result is
\* url_decoded(ID) and its name is url_decoded(NAME).
C12_ParseDecodes ==
    (IsSome(sx.did_res) /\ Unwrap(sx.did_res).ok) =>
        /\ Unwrap(Unwrap(sx.did_res).val).id = url_decoded(RestOf(sx.text))
        /\ Unwrap(Unwrap(sx.did_res).val).name = url_decoded(NameOf(sx.text))

\* the decoding that keeps malformed escapes: a '%' followed by two hex digits is one
\* byte, every other byte stands for itself
RECURSIVE LiteralDecode(_)
LiteralDecode(s) ==
    IF s = <<>> THEN <<>>
    ELSE IF Len(s) >= 3 /\ s[1] = ChPct /\ IsHexDigit(s[2]) /\ IsHexDigit(s[3])
         THEN <<ToDigit16(s[2]) * 16 + ToDigit16(s[3])>> \o LiteralDecode(Drop(s, 3))
    ELSE <<Head(s)>> \o LiteralDecode(Tail(s))

\* C13: url_decoded never fails and keeps what is not an escape: each '%' followed by
\* two hex digits gives the one byte they name, and every other byte of the input, a '%'
\* not followed by two hex digits and the bytes after it included, is in the output
\* unchanged and in its place.
C13_LiteralPreserving ==
    cx.step = "raw_decoded" => cx.dec = LiteralDecode(cx.b)

MethodChars(s) == \A i \in 1..Len(s) : IsLower(s[i]) \/ IsDigit(s[i])

\* C14 as stated: validate_method_name succeeds exactly on the non-empty strings over
\* [a-z0-9], and so fails on the empty string.
C14_NonEmptyOnly ==
    cx.step = "validated" => (cx.name_ok <=> (cx.b # <<>> /\ MethodChars(cx.b)))

\* C14: validate_method_name succeeds exactly on the strings whose every byte is in
\* [a-z0-9]: it accepts "erik" and "abc123", fails on "Erik" and "not valid", and
\* accepts the empty string, which has no byte outside the range.
C14_EveryByteInRange ==
    cx.step = "validated" => (cx.name_ok <=> MethodChars(cx.b))

\* the empty string was validated and accepted
C14_Witness ==
    cx.step = "validated" /\ cx.b = <<>> /\ cx.name_ok

\* C15: a set of verification methods identifies its members by id alone: whatever
\* methods were inserted, the set never holds two members with equal id.
C15_UniqueById ==
    dx.kind = "set" => \A m1 \in dx.set : \A m2 \in dx.set : m1.id = m2.id => m1 = m2

\* the Locator references of a set, and whether one resolves in a registry
ReferencesOf(vs) == {Unwrap(vs[i].right) : i \in {j \in 1..Len(vs) : IsSome(vs[j].right)}}

Stored(reg, url) == to_did(url) \in DOMAIN reg

HasMethods(reg, url) == IsSome(reg[to_did(url)].verification_method)

Resolves(reg, url) ==
    /\ Stored(reg, url)
    /\ HasMethods(reg, url)
    /\ \E vm \in Unwrap(reg[to_did(url)].verification_method) : vm.id = url

\* C16: valid(Some(registry)) on a set with two or more Locator references, each stored
\* document they name having a verification_method set, fails when any one of the
\* references, whatever its place in the set, does not resolve.
C16_EveryReferenceResolves ==
    (/\ dx.kind = "refs" /\ dx.registry /\ IsSome(dx.res)
     /\ Cardinality(ReferencesOf(dx.refs)) >= 2
     /\ \A u \in ReferencesOf(dx.refs) : Stored(r, u) => HasMethods(r, u)
     /\ \E u \in ReferencesOf(dx.refs) : ~Resolves(r, u))
        => ~Unwrap(dx.res).ok

\* C17: valid(Some(registry)) on a set that holds one Locator reference and nothing
\* else fails with the method-not-found error when the Identifier of the reference is
\* stored and its document has no method with that id, the document without a
\* verification_method field included.
C17_MethodNotFound ==
    (/\ dx.kind = "refs" /\ dx.registry /\ IsSome(dx.res)
     /\ Len(dx.refs) = 1 /\ IsSome(dx.refs[1].right)
     /\ Stored(r, Unwrap(dx.refs[1].right))
     /\ ~Resolves(r, Unwrap(dx.refs[1].right)))
        => (~Unwrap(dx.res).ok /\ Unwrap(dx.res).err.msg = NotLocated)

\* C18: VerificationMethod::valid fails exactly when public_key_jwk and
\* public_key_multibase are both set, whatever the id, the controller and the type.
C18_BothKeys ==
    (dx.kind = "vm" /\ IsSome(dx.res)) =>
        (~Unwrap(dx.res).ok <=>
            (IsSome(Unwrap(dx.vm).public_key_jwk) /\ IsSome(Unwrap(dx.vm).public_key_multibase)))

\* a method with both keys was validated and refused
C18_Witness ==
    /\ dx.kind = "vm" /\ IsSome(dx.res) /\ ~Unwrap(dx.res).ok
    /\ IsSome(Unwrap(dx.vm).public_key_jwk) /\ IsSome(Unwrap(dx.vm).public_key_multibase)

\* the key=value pairs of the query of a text, in the order they are written
PairsOf(text) ==
    LET parts == split(Drop(text, IndexOf(text, ChQuest)), ChAmp)
    IN [i \in 1..Len(parts) |->
            IF Contains(parts[i], ChEq)
            THEN [k |-> Take(parts[i], IndexOf(parts[i], ChEq) - 1),
                  v |-> Drop(parts[i], IndexOf(parts[i], ChEq))]
            ELSE [k |-> parts[i], v |-> <<>>]]

\* the pairs that are the first with their key, in the order they are written
RECURSIVE FirstOccurrences(_, _)
FirstOccurrences(pairs, seen) ==
    IF pairs = <<>> THEN <<>>
    ELSE IF Head(pairs).k \in seen THEN FirstOccurrences(Tail(pairs), seen)
    ELSE <<Head(pairs)>> \o FirstOccurrences(Tail(pairs), seen \cup {Head(pairs).k})

\* the pairs that are the last with their key, in the ascending order of the keys
RECURSIVE ByKey(_)
ByKey(S) ==
    IF S = {} THEN <<>>
    ELSE LET m == CHOOSE e \in S : \A f \in S \ {e} : BytesLess(e.k, f.k)
         IN <<m>> \o ByKey(S \ {m})

LastOccurrences(pairs) ==
    ByKey({pairs[i] : i \in {j \in 1..Len(pairs) : \A l \in (j + 1)..Len(pairs) : pairs[l].k # pairs[j].k}})

\* the extra_query of the Locator parsed from a query text
ParsedExtraQuery == Unwrap(Unwrap(Unwrap(sx.url_res).val).parameters).extra_query

\* C19 as stated: extra_query is keyed by first occurrence and kept in insertion order:
\* a key that comes again keeps its first value, and the pairs are iterated in the
\* order the keys first appear.
C19_FirstOccurrenceOrder ==
    (sx.text \in QueryTexts /\ IsSome(sx.url_res)) =>
        /\ Unwrap(sx.url_res).ok
        /\ ParsedExtraQuery = Some(FirstOccurrences(PairsOf(sx.text), {}))

\* C19: extra_query is keyed by the decoded key and kept in key order: a key that comes
\* again takes the value of its last occurrence, and the pairs are iterated, and so
\* formatted, in the ascending byte order of the keys.
C19_LastOccurrenceKeyOrder ==
    (sx.text \in QueryTexts /\ IsSome(sx.url_res)) =>
        /\ Unwrap(sx.url_res).ok
        /\ ParsedExtraQuery = Some(LastOccurrences(PairsOf(sx.text)))

\* a query that repeats a key and writes the keys out of order was parsed: "k=v&b=1&k=w"
C19_Witness ==
    /\ sx.text = <<100, 105, 100, 58, 97, 49, 58, 49, 63, 107, 61, 118, 38, 98, 61, 49, 38, 107, 61, 119>>
    /\ IsSome(sx.url_res) /\ Unwrap(sx.url_res).ok
    /\ Len(Unwrap(ParsedExtraQuery)) = 2

\* "did:a1:1", an Identifier text to parse a relative text after
ProbeText == <<100, 105, 100, 58, 97, 49, 58, 49>>

IsRelative(s) == s # <<>> /\ Head(s) \in {ChSlash, ChQuest, ChHash}

\* the relative text is written the way Display writes it
Normalised(s) ==
    /\ URL_parse(ProbeText \o s).ok
    /\ URL_to_string(Unwrap(URL_parse(ProbeText \o s).val)) = ProbeText \o s

\* C20: join fails on the empty text and on a text that starts with none of '/', '?',
\* '#'; on any other text it succeeds exactly when the base's text followed by s
\* parses, the parameters of the result are those that parsing s after an Identifier
\* gives, and for a base without parameters and an s written the way Display writes it
\* the result formats as the base's text followed by s.
C20_Join ==
    (sx.kind = "join" /\ IsSome(sx.url_res)) =>
        LET res == Unwrap(sx.url_res)
            s == sx.text
            base == DID_to_string(sx.x.did)
        IN /\ ~IsRelative(s) => ~res.ok
           /\ IsRelative(s) =>
                /\ res.ok <=> URL_parse(base \o s).ok
                /\ res.ok =>
                      /\ Unwrap(res.val).parameters
                            = Unwrap(URL_parse(ProbeText \o s).val).parameters
                      /\ (IsNone(sx.x.parameters) /\ Normalised(s)) =>
                            URL_to_string(Unwrap(res.val)) = base \o s

\* the key=value texts of the query fields that are set, in the order service,
\* relativeRef, versionId, versionTime, hl, and then the pairs of extra_query in the
\* order they are stored
RECURSIVE PairTexts(_)
PairTexts(m) ==
    IF m = <<>> THEN <<>>
    ELSE <<url_encoded(Head(m).k) \o <<ChEq>> \o url_encoded(Head(m).v)>> \o PairTexts(Tail(m))

QueryFieldTexts(p) ==
    (IF IsSome(p.service) THEN <<KeyService \o <<ChEq>> \o Unwrap(p.service)>> ELSE <<>>)
        \o (IF IsSome(p.relative_ref)
            THEN <<KeyRelativeRef \o <<ChEq>> \o url_encoded(Unwrap(p.relative_ref))>> ELSE <<>>)
        \o (IF IsSome(p.version_id) THEN <<KeyVersionId \o <<ChEq>> \o Unwrap(p.version_id)>> ELSE <<>>)
        \o (IF IsSome(p.version_time)
            THEN <<KeyVersionTime \o <<ChEq>> \o VersionTime_to_string(Unwrap(p.version_time))>>
            ELSE <<>>)
        \o (IF IsSome(p.hash_link) THEN <<KeyHl \o <<ChEq>> \o Unwrap(p.hash_link)>> ELSE <<>>)
        \o (IF IsSome(p.extra_query) THEN PairTexts(Unwrap(p.extra_query)) ELSE <<>>)

\* the text the layout prescribes for a Locator
LayoutOf(url) ==
    LET p == FieldsOf(url)
        fields == QueryFieldTexts(p)
    IN DidPrefix \o url_encoded(url.did.name) \o <<ChColon>> \o method_id_encoded(url.did.id)
        \o (IF IsSome(p.path) THEN <<ChSlash>> \o url_encoded(Unwrap(p.path)) ELSE <<>>)
        \o (IF fields # <<>> THEN <<ChQuest>> \o JoinParts(fields) ELSE <<>>)
        \o (IF IsSome(p.fragment) THEN <<ChHash>> \o url_encoded(Unwrap(p.fragment)) ELSE <<>>)

\* C21: the text of a Locator is did:NAME:ID, then '/' and the path if it is set, then,
\* only if at least one query parameter is present, '?' and the parameters that are set
\* in the order service, relativeRef, versionId, versionTime, hl, extra_query pairs,
\* each as key=value with one '&' between two of them and none at the end, then '#' and
\* the fragment if it is set.
C21_Layout ==
    (sx.kind = "url" /\ sx.step = "text") => sx.text = LayoutOf(sx.x)

\* whether doc has a Url among its alsoKnownAs entries
HasUrlEntry(doc) == ~LiteralOnly(doc)

\* C22: with remote_cache off, no registry operation asks the fetch collaborator for
\* anything and none but insert adds a document; equivalent_to_did leaves the registry
\* as it was, its only errors are the missing Identifier and the disabled cache, and a
\* call on stored a and b that has a Url entry of a to resolve fails with the disabled
\* cache error: it answers true only when the literal entries of a and b name each
\* other, and never false.
C22_CacheDisabled ==
    ~remote_cache =>
        /\ last.fetched = <<>>
        /\ last.op # "insert" => \A d \in DOMAIN r : d \in DOMAIN last.before /\ r[d] = last.before[d]
        /\ last.op = "equivalent_to_did" =>
             /\ r = last.before
             /\ ~last.res.ok => last.res.err.msg \in {NotInRegistry, CacheDisabled}
             /\ (/\ Unwrap(last.did) \in DOMAIN r
                 /\ Unwrap(last.other) \in DOMAIN r
                 /\ HasUrlEntry(r[Unwrap(last.did)]))
                => \/ last.res = Err(CacheDisabled)
                   \/ /\ last.res = Ok(TRUE)
                      /\ Unwrap(last.other) \in LiteralAka(r[Unwrap(last.did)])
                      /\ Unwrap(last.did) \in LiteralAka(r[Unwrap(last.other)])

\* with the cache off, a call on a stored a whose only entry is a Url the collaborator
\* would answer with a document that is not stored failed, and nothing was stored
C22_Witness ==
    /\ ~remote_cache /\ last.op = "equivalent_to_did"
    /\ Unwrap(last.did) \in DOMAIN r /\ Unwrap(last.other) \in DOMAIN r
    /\ HasUrlEntry(r[Unwrap(last.did)]) /\ Len(Unwrap(r[Unwrap(last.did)].also_known_as)) = 1
    /\ \A u \in Urls : remote[u].ok /\ Unwrap(remote[u].val).id \notin DOMAIN r
    /\ last.res = Err(CacheDisabled) /\ r = last.before

\* whether an alsoKnownAs entry resolves to did: a literal Identifier equal to did, or a
\* Url the fetch collaborator answers with a document whose id is did
ResolvesTo(e, did) ==
    IF IsSome(e.left) THEN Unwrap(e.left) = did
    ELSE remote[Unwrap(e.right)].ok /\ Unwrap(remote[Unwrap(e.right)].val).id = did

\* whether some alsoKnownAs entry of doc resolves to did
ClaimsToBe(doc, did) ==
    /\ IsSome(doc.also_known_as)
    /\ \E i \in 1..Len(Unwrap(doc.also_known_as)) : ResolvesTo(Unwrap(doc.also_known_as)[i], did)

\* C23: with the remote cache on and every fetch succeeding, equivalent_to_did(a, b) on
\* stored a and b is true when some entry of a's alsoKnownAs set resolves to b and some
\* entry of b's set resolves to a, an entry being a literal Identifier or a Url whose
\* fetched document has that id.
C23_EquivalentThroughUrls ==
    (/\ last.op = "equivalent_to_did" /\ remote_cache
     /\ \A u \in Urls : remote[u].ok
     /\ Unwrap(last.did) \in DOMAIN last.before
     /\ Unwrap(last.other) \in DOMAIN last.before
     /\ ClaimsToBe(last.before[Unwrap(last.did)], Unwrap(last.other))
     /\ ClaimsToBe(last.before[Unwrap(last.other)], Unwrap(last.did)))
    => last.res = Ok(TRUE)

\* the documents the fetch collaborator handed to a call, in the order of its requests
FetchedDocuments(call) ==
    [i \in {j \in 1..Len(call.fetched) : remote[call.fetched[j]].ok}
        |-> Unwrap(remote[call.fetched[i]].val)]

\* C24: with the remote cache on, every document equivalent_to_did fetched for a Url
\* entry is in the registry under its own id when the call has returned, get of that id
\* returning it, and a fetch that succeeded does not end the resolution: a call whose
\* every request was answered with a document returns a boolean.
C24_ReadYourWrites ==
    (last.op = "equivalent_to_did" /\ remote_cache) =>
        /\ \A i \in DOMAIN FetchedDocuments(last) :
              Registry_get(r, FetchedDocuments(last)[i].id) = Some(FetchedDocuments(last)[i])
        /\ (\A i \in 1..Len(last.fetched) : remote[last.fetched[i]].ok) => last.res.ok

ReservedKeys == {KeyService, KeyRelativeRef, KeyVersionId, KeyVersionTime, KeyHl}

\* the key and the value of a part of a query: the texts before and after its first '=',
\* the part itself and the empty text when it has no '='
PartKey(part) == IF Contains(part, ChEq) THEN Take(part, IndexOf(part, ChEq) - 1) ELSE part

PartValue(part) == IF Contains(part, ChEq) THEN Drop(part, IndexOf(part, ChEq)) ELSE <<>>

\* the parts of the query of a text "did:a1:1?..."
PartsOf(text) == split(Drop(text, IndexOf(text, ChQuest)), ChAmp)

\* the value of the last of the parts at the indices typed that has the key
LastValueOf(parts, typed, key) ==
    LET hits == {i \in typed : PartKey(parts[i]) = key}
    IN IF hits = {} THEN None
       ELSE Some(PartValue(parts[CHOOSE i \in hits : \A j \in hits : j <= i]))

\* whether every versionTime value among the parts at the indices typed is a time
TimesValid(parts, typed) ==
    \A i \in typed : PartKey(parts[i]) = KeyVersionTime => VersionTime_parse(PartValue(parts[i])).ok

\* the fields a query stands for when the parts at the indices typed set the typed fields
\* and all the others go to extra_query
ExpectedFields(parts, typed) ==
    LET other == (1..Len(parts)) \ typed
        decoded == [i \in 1..Len(parts) |->
                       [k |-> url_decoded(PartKey(parts[i])), v |-> url_decoded(PartValue(parts[i]))]]
        lastOther == {i \in other : \A j \in other : j > i => decoded[j].k # decoded[i].k}
        time == LastValueOf(parts, typed, KeyVersionTime)
    IN [DefaultParameters EXCEPT
           !.service = LastValueOf(parts, typed, KeyService),
           !.relative_ref = MapDecoded(LastValueOf(parts, typed, KeyRelativeRef)),
           !.version_id = LastValueOf(parts, typed, KeyVersionId),
           !.version_time = IF IsNone(time) THEN None ELSE VersionTime_parse(Unwrap(time)).val,
           !.hash_link = LastValueOf(parts, typed, KeyHl),
           !.extra_query = IF other = {} THEN None ELSE Some(ByKey({decoded[i] : i \in lastOther}))]

\* the parts whose key is a reserved key, and those of them that are written key=value
KeyedReserved(parts) == {i \in 1..Len(parts) : PartKey(parts[i]) \in ReservedKeys}

WrittenReserved(parts) == {i \in KeyedReserved(parts) : Contains(parts[i], ChEq)}

\* C25 as stated: every part whose key is exactly a reserved key, a part without '='
\* included, sets the typed field alone and never enters extra_query; every other part
\* goes to extra_query, key and value decoded.
C25_ReservedByKey ==
    (/\ sx.text \in FieldTexts /\ IsSome(sx.url_res)
     /\ TimesValid(PartsOf(sx.text), KeyedReserved(PartsOf(sx.text))))
    => /\ Unwrap(sx.url_res).ok
       /\ FieldsOf(Unwrap(Unwrap(sx.url_res).val))
            = ExpectedFields(PartsOf(sx.text), KeyedReserved(PartsOf(sx.text)))

\* C25: the query is split on every '&' and each part on its first '='; a part
\* key=value whose key is exactly service, relativeRef, versionId, versionTime or hl sets
\* that typed field alone (relativeRef decoded, a versionTime that is not a time failing
\* the parse) and never enters extra_query; every other part goes to extra_query with key
\* and value decoded, a part without '=' under its whole text with an empty value even
\* when that text is a reserved key; extra_query is unset when there is no such part.
C25_ReservedByKeyValue ==
    (sx.text \in FieldTexts /\ IsSome(sx.url_res)) =>
        IF TimesValid(PartsOf(sx.text), WrittenReserved(PartsOf(sx.text)))
        THEN /\ Unwrap(sx.url_res).ok
             /\ Unwrap(Unwrap(sx.url_res).val).did = DID(<<97, 49>>, <<49>>)
             /\ FieldsOf(Unwrap(Unwrap(sx.url_res).val))
                  = ExpectedFields(PartsOf(sx.text), WrittenReserved(PartsOf(sx.text)))
        ELSE ~Unwrap(sx.url_res).ok

\* a query with "hl=h" and a bare "hl" was parsed: hash_link is "h" and extra_query holds
\* the key "hl" with an empty value
C25_Witness ==
    /\ sx.text \in FieldTexts /\ IsSome(sx.url_res) /\ Unwrap(sx.url_res).ok
    /\ FieldsOf(Unwrap(Unwrap(sx.url_res).val)).hash_link = Some(<<104>>)
    /\ IsSome(ParsedExtraQuery)
    /\ \E i \in 1..Len(Unwrap(ParsedExtraQuery)) :
          Unwrap(ParsedExtraQuery)[i] = [k |-> KeyHl, v |-> <<>>]

\* C26 as stated: URL::parse accepts a text exactly when the decoded NAME is made of
\* [a-z0-9] only, so that a NAME written with escapes of such bytes is accepted.
C26_DecodedName ==
    (sx.text \in NameTexts /\ IsSome(sx.url_res)) =>
        (Unwrap(sx.url_res).ok <=> MethodChars(url_decoded(NameOf(sx.text))))

\* C26: the NAME is validated as it is written, before it is decoded: URL::parse accepts
\* a text exactly when every byte of the written NAME is in [a-z0-9], so that a NAME with
\* an escape, whatever it decodes to, is rejected with the invalid method name error, and
\* the name of an accepted Locator is the written NAME.
C26_WrittenName ==
    (sx.text \in NameTexts /\ IsSome(sx.url_res)) =>
        IF MethodChars(NameOf(sx.text))
        THEN /\ Unwrap(sx.url_res).ok
             /\ Unwrap(Unwrap(sx.url_res).val).did.name = NameOf(sx.text)
        ELSE Unwrap(sx.url_res) = Err(InvalidName)

\* a text with a fragment and the NAME "%61%31", which decodes to "a1", was rejected
C26_Witness ==
    /\ sx.text \in NameTexts /\ IsSome(sx.url_res)
    /\ NameOf(sx.text) = <<37, 54, 49, 37, 51, 49>>
    /\ Contains(sx.text, ChHash)
    /\ Unwrap(sx.url_res) = Err(InvalidName)

\* the Urls among the alsoKnownAs entries of doc, in the order of the set
UrlEntries(doc) ==
    IF IsNone(doc.also_known_as) THEN <<>>
    ELSE LET aka == Unwrap(doc.also_known_as)
             F[i \in 0..Len(aka)] ==
                 IF i = 0 THEN <<>>
                 ELSE IF IsSome(aka[i].right) THEN Append(F[i - 1], Unwrap(aka[i].right))
                 ELSE F[i - 1]
         IN F[Len(aka)]

\* whether every Url entry of doc can be fetched and stored from the registry reg
Fetchable(doc, reg) ==
    \A i \in 1..Len(UrlEntries(doc)) :
        /\ remote_cache /\ remote[UrlEntries(doc)[i]].ok
        /\ Unwrap(remote[UrlEntries(doc)[i]].val).id \notin DOMAIN reg

\* C27: equivalent_to_did(a, b) on stored a and b resolves the entries of b only after an
\* entry of a has resolved to b: when no entry of a resolves to b (and the Url entries of
\* a can be fetched and stored), the call returns false and the only requests made are
\* those for the Url entries of a; with the cache off, a naming only a literal c # b while
\* b holds a Url gives false, not an error.
C27_OtherResolvedLast ==
    (/\ last.op = "equivalent_to_did"
     /\ Unwrap(last.did) \in DOMAIN last.before
     /\ Unwrap(last.other) \in DOMAIN last.before
     /\ ~ClaimsToBe(last.before[Unwrap(last.did)], Unwrap(last.other))
     /\ Fetchable(last.before[Unwrap(last.did)], last.before))
    => /\ last.res = Ok(FALSE)
       /\ last.fetched = UrlEntries(last.before[Unwrap(last.did)])

\* C28: whenever base.join(s) succeeds, the Identifier of the result is the Identifier of
\* the base, byte for byte, whatever bytes the id of the base holds, a '%' before two hex
\* digits included; only the parameters come from s.
C28_JoinKeepsIdentifier ==
    (sx.kind = "join" /\ IsSome(sx.url_res) /\ Unwrap(sx.url_res).ok)
        => to_did(Unwrap(Unwrap(sx.url_res).val)) = to_did(sx.x)

\* whether a text holds none of '/', '?', '#'
Parameterless(text) ==
    ~Contains(text, ChSlash) /\ ~Contains(text, ChQuest) /\ ~Contains(text, ChHash)

\* C29: on a text without '/', '?' and '#', URL::parse succeeds exactly when DID::parse
\* succeeds; when both succeed the Locator has no parameters and its Identifier is the
\* one DID::parse returns; URL::parse never returns an empty name or an empty id.
C29_ParsersAgree ==
    (/\ sx.kind = "didtext" /\ Parameterless(sx.text)
     /\ IsSome(sx.did_res) /\ IsSome(sx.url_res))
    => LET did == Unwrap(sx.did_res)
           url == Unwrap(sx.url_res)
       IN /\ url.ok <=> did.ok
          /\ (url.ok /\ did.ok) =>
                /\ IsNone(Unwrap(url.val).parameters)
                /\ to_did(Unwrap(url.val)) = Unwrap(did.val)
          /\ url.ok => (Unwrap(url.val).did.name # <<>> /\ Unwrap(url.val).did.id # <<>>)

\* two results that are the same boolean, or errors both
SameOutcome(x, y) == (x.ok /\ y.ok /\ x.val = y.val) \/ (~x.ok /\ ~y.ok)

\* a step that calls equivalent_to_did on stored a and b, with the remote cache on and
\* every fetch answered, right after a call with the same arguments
CalledAgain ==
    /\ last.op = "equivalent_to_did" /\ last'.op = "equivalent_to_did"
    /\ last'.did = last.did /\ last'.other = last.other /\ last'.before = r
    /\ Unwrap(last.did) \in DOMAIN last.before /\ Unwrap(last.other) \in DOMAIN last.before
    /\ remote_cache /\ \A u \in Urls : remote[u].ok

\* C30: with the remote cache on and every fetch answered, equivalent_to_did(a, b) on
\* stored a and b called twice in succession gives the same outcome both times, the same
\* boolean or an error both times, and the second call leaves the registry as it was.
C30_Repeatable ==
    [][CalledAgain => (SameOutcome(last.res, last'.res) /\ r' = r)]_vars

====
